---- MODULE Spec2Model ----
(***************************************************************************)
(* Team schedule system (src/app.py, class TeamScheduleSystem).            *)
(*                                                                         *)
(* The persisted collections (users.json, schedule.csv,                    *)
(* shift_requests.csv, notifications.json) are the "disk" variables.  Every *)
(* Streamlit script run constructs a new TeamScheduleSystem, which loads   *)
(* the collections into memory (mem[s]) and then runs at most one handler  *)
(* for the widget that was clicked; st.session_state (sess[s]) survives    *)
(* from one run of a browser session to the next.                          *)
(*                                                                         *)
(* A schedule entry's key is its pandas index.  read_csv assigns 0..n-1 on *)
(* every load and pd.concat(..., ignore_index=True) renumbers, so the      *)
(* schedule is a sequence and key k is position k+1.                       *)
(*                                                                         *)
(* Times are minutes of the day; an "HH:MM" string is the pair <<h, m>>.   *)
(* Dates are day ordinals, day 0 being a Monday.  The created_at and       *)
(* updated_at stamps are not modelled.  The backup copies that a save       *)
(* leaves in data/backups are followed in SpecBackup only.                  *)
(***************************************************************************)
EXTENDS Integers, Sequences, FiniteSets, TLC

\* ---- bounds of the model ------------------------------------------------
\* working days per week that the model's calendar has (the code: range(5))
WeekLen == 1
\* most swap requests ever created
MaxRequests == 1
\* most widget clicks (handler runs) in a behaviour
MaxClicks == 5
\* most rows of a schedule file that was written outside the program
MaxRows == 2

\* ---- program constants --------------------------------------------------
DaysPerWeek == 7
InboxCap == 50
DefaultHours == 9

WORK_LOCATIONS == {"Office", "WFH", "Hybrid", "On-Site Client", "Travel"}
SHIFT_REQUEST_STATUS == {"Pending", "Approved", "Rejected", "Cancelled"}
USER_ROLES == {"Admin", "Manager", "Team Lead", "Regular"}

Sessions == {"s1", "s2"}
Usernames == {"alice", "bob"}
NoUser == "none"
NoId == -1
Null == [null |-> TRUE]

\* ---- small helpers ------------------------------------------------------
Max(a, b) == IF a >= b THEN a ELSE b

RECURSIVE SeqFilter(_, _)
\* the rows of q whose position is in keep, in order (boolean-mask selection)
SeqFilter(q, keep) ==
    IF q = <<>> THEN <<>>
    ELSE LET n == Len(q)
             rest == SeqFilter(SubSeq(q, 1, n - 1), keep)
         IN IF n \in keep THEN Append(rest, q[n]) ELSE rest

\* DataFrame.drop(k): the row with key k removed (key k is position k+1)
Drop(q, k) == SeqFilter(q, (1..Len(q)) \ {k + 1})

\* k in DataFrame.index, for a frame numbered 0..n-1
InIndex(q, k) == k >= 0 /\ k < Len(q)

\* ---- time and date conversions -----------------------------------------
\* datetime.strftime('%H:%M') of a time given in minutes from midnight; a
\* datetime past midnight keeps only its time of day
strftime(mins) == <<(mins \div 60) % 24, mins % 60>>

\* _parse_time: "HH:MM" to a time of day (compared as minutes)
parse_time(str) == (str[1] % 24) * 60 + (str[2] % 60)

\* date.weekday(): Monday is 0
weekday(d) == d % DaysPerWeek

Today == 2

get_current_week_dates ==
    LET monday == Today - weekday(Today)
    IN [i \in 1..WeekLen |-> monday + (i - 1)]

get_next_week_dates ==
    LET monday == Today - weekday(Today)
        next_monday == monday + 7
    IN [i \in 1..WeekLen |-> next_monday + (i - 1)]

SeqRange(q) == {q[i] : i \in 1..Len(q)}

\* ---- records ------------------------------------------------------------
\* users.json: an ordered dict of username -> user record; only the users
\* _create_default_users writes carry embedded preferences
NoPrefs == [none |-> TRUE]

DefaultRoster ==
    << [username |-> "alice", name |-> "Alice", subteam |-> "Brokerage",
        role |-> "Regular",
        preferences |-> [preferred_location |-> "Office",
                         preferred_days |-> {0, 2, 4},
                         preferred_start_time |-> <<9, 0>>,
                         preferred_hours |-> 8]],
       [username |-> "bob", name |-> "Bob", subteam |-> "Brokerage",
        role |-> "Manager", preferences |-> NoPrefs] >>

\* username in self.users
HasUser(users, u) == \E i \in 1..Len(users) : users[i].username = u

\* self.users[u]; evaluated only where HasUser holds (a KeyError otherwise)
UserOf(users, u) == users[CHOOSE i \in 1..Len(users) : users[i].username = u]

Entry(date, username, name, subteam, start_time, end_time, location, notes, auto) ==
    [date |-> date, username |-> username, name |-> name, subteam |-> subteam,
     start_time |-> start_time, end_time |-> end_time, location |-> location,
     notes |-> notes, auto_assigned |-> auto]

\* ---- notifications ------------------------------------------------------
\* the inbox of username, empty when the dict has no such key
Inbox(notifications, username) ==
    IF username \in DOMAIN notifications THEN notifications[username] ELSE <<>>

\* a fresh id (uuid4): one that no notification of the dict carries
FreshId(notifications) ==
    LET used == UNION {{notifications[u][i].id : i \in 1..Len(notifications[u])} :
                       u \in DOMAIN notifications}
    IN IF used = {} THEN 1 ELSE 1 + CHOOSE m \in used : \A x \in used : x <= m

\* the new notification first, every inbox kept whole
add_notification_uncapped(notifications, username, message, type) ==
    LET n == [id |-> FreshId(notifications), message |-> message,
              type |-> type, read |-> FALSE]
    IN [u \in DOMAIN notifications \cup {username} |->
          IF u = username THEN <<n>> \o Inbox(notifications, username)
          ELSE notifications[u]]

\* the new notification last, the inbox cut to its latest InboxCap
add_notification_append(notifications, username, message, type) ==
    LET n == [id |-> FreshId(notifications), message |-> message,
              type |-> type, read |-> FALSE]
        grown == Append(Inbox(notifications, username), n)
        kept == IF Len(grown) > InboxCap
                THEN SubSeq(grown, Len(grown) - InboxCap + 1, Len(grown)) ELSE grown
    IN [u \in DOMAIN notifications \cup {username} |->
          IF u = username THEN kept ELSE notifications[u]]

\* add_notification: the dict with the new unread notification first in the
\* user's inbox, the inbox cut to its newest InboxCap
add_notification(notifications, username, message, type) ==
    LET n == [id |-> FreshId(notifications), message |-> message,
              type |-> type, read |-> FALSE]
        grown == <<n>> \o Inbox(notifications, username)
        kept == IF Len(grown) > InboxCap THEN SubSeq(grown, 1, InboxCap) ELSE grown
    IN [u \in DOMAIN notifications \cup {username} |->
          IF u = username THEN kept ELSE notifications[u]]

RECURSIVE notify_all(_, _, _, _)
\* add_notification for each username of the sequence, in order
notify_all(notifications, names, message, type) ==
    IF names = <<>> THEN notifications
    ELSE notify_all(add_notification(notifications, Head(names), message, type),
                    Tail(names), message, type)

\* the result of a notification call: its return value, the dict afterwards
\* and whether _save_notifications ran
Answer(ok, notifications, saved) ==
    [ok |-> ok, notifications |-> notifications, saved |-> saved]

\* mark_notification_as_read: the first notification with the id is marked
\* read; the dict is saved and True returned whether or not one was found
mark_notification_as_read(notifications, username, notification_id) ==
    IF username \notin DOMAIN notifications THEN Answer(FALSE, notifications, FALSE)
    ELSE LET inbox == notifications[username]
             hits == {i \in 1..Len(inbox) : inbox[i].id = notification_id}
             marked == [i \in 1..Len(inbox) |->
                          IF i \in hits /\ \A j \in hits : i <= j
                          THEN [inbox[i] EXCEPT !.read = TRUE] ELSE inbox[i]]
         IN Answer(TRUE, [notifications EXCEPT ![username] = marked], TRUE)

\* delete_notification: the inbox without the notifications of the id; the
\* dict is saved and True returned whether or not one was there
delete_notification(notifications, username, notification_id) ==
    IF username \notin DOMAIN notifications THEN Answer(FALSE, notifications, FALSE)
    ELSE LET inbox == notifications[username]
             others == {i \in 1..Len(inbox) : inbox[i].id # notification_id}
         IN Answer(TRUE, [notifications EXCEPT ![username] = SeqFilter(inbox, others)],
                   TRUE)

\* the usernames whose role is Admin or Manager, in dict order
ManagerNames(users) ==
    LET idx == {i \in 1..Len(users) : users[i].role \in {"Admin", "Manager"}}
        f == SeqFilter(users, idx)
    IN [i \in 1..Len(f) |-> f[i].username]

\* ---- auto-assignment ----------------------------------------------------
RECURSIVE Subteams(_)
\* the subteams of the users, in order of first appearance (subteam_users)
Subteams(users) ==
    IF users = <<>> THEN <<>>
    ELSE LET n == Len(users)
             before == Subteams(SubSeq(users, 1, n - 1))
         IN IF users[n].subteam \in SeqRange(before) THEN before
            ELSE Append(before, users[n].subteam)

\* subteam_users[subteam]: the members in dict order
TeamMembers(users, subteam) ==
    SeqFilter(users, {i \in 1..Len(users) : users[i].subteam = subteam})

\* five members a day whatever the size of the team
members_per_day_five(team) == 5

\* a fifth of the team, none for a team smaller than five
members_per_day_fifth(team) == Len(team) \div 5

members_per_day(team) == Max(1, Len(team) \div 5)

\* the members of the team picked for the date, rotating by the day of week
selected_users(team, date) ==
    [i \in 1..members_per_day(team) |->
        team[((weekday(date) + (i - 1)) % Len(team)) + 1]]

RECURSIVE SlotsOfTeams(_, _, _)
\* for one date, the picked members of each subteam of the sequence, in order
SlotsOfTeams(users, teams, date) ==
    IF teams = <<>> THEN <<>>
    ELSE LET sel == selected_users(TeamMembers(users, Head(teams)), date)
         IN [i \in 1..Len(sel) |-> [date |-> date, user |-> sel[i]]]
            \o SlotsOfTeams(users, Tail(teams), date)

RECURSIVE AssignSlots(_, _)
\* every (date, member) the nested loops of _auto_assign_shifts visit, in order
AssignSlots(users, dates) ==
    IF dates = <<>> THEN <<>>
    ELSE SlotsOfTeams(users, Subteams(users), Head(dates))
         \o AssignSlots(users, Tail(dates))

\* location_weights in tenths, <<Office, WFH>>
location_weights(prefs, date) ==
    LET preferred_location ==
            IF prefs = NoPrefs THEN "None" ELSE prefs.preferred_location
        preferred_days == IF prefs = NoPrefs THEN {} ELSE prefs.preferred_days
        base == IF preferred_location = "Office" THEN <<9, 1>>
                ELSE IF preferred_location = "WFH" THEN <<2, 8>>
                ELSE <<7, 3>>
    IN IF weekday(date) \in preferred_days /\ preferred_location = "WFH"
       THEN <<1, 9>> ELSE base

\* the locations random.choices can return: those of positive weight
LocationDraws(prefs, date) ==
    LET w == location_weights(prefs, date)
    IN {l \in {"Office", "WFH"} :
          (l = "Office" /\ w[1] > 0) \/ (l = "WFH" /\ w[2] > 0)}

\* the entry with a start that follows the draw: a home shift begins an hour
\* later
AutoEntry_by_draw(slot, location) ==
    LET prefs == slot.user.preferences
        preferred == IF prefs = NoPrefs THEN <<9, 0>>
                     ELSE prefs.preferred_start_time
        start_time == IF location = "WFH" THEN <<preferred[1] + 1, preferred[2]>>
                      ELSE preferred
        hours_worked == IF prefs = NoPrefs THEN DefaultHours
                        ELSE prefs.preferred_hours
        end_time == strftime(start_time[1] * 60 + start_time[2] + hours_worked * 60)
    IN Entry(slot.date, slot.user.username, slot.user.name, slot.user.subteam,
             start_time, end_time, location, <<"Auto-assigned shift">>, TRUE)

\* the entry placed where the member prefers to work, the draw deciding only
\* for a member without a preferred location
AutoEntry_preferred(slot, location) ==
    LET prefs == slot.user.preferences
        start_time == IF prefs = NoPrefs THEN <<9, 0>>
                      ELSE prefs.preferred_start_time
        hours_worked == IF prefs = NoPrefs THEN DefaultHours
                        ELSE prefs.preferred_hours
        end_time == strftime(start_time[1] * 60 + start_time[2] + hours_worked * 60)
        placed == IF prefs = NoPrefs THEN location ELSE prefs.preferred_location
    IN Entry(slot.date, slot.user.username, slot.user.name, slot.user.subteam,
             start_time, end_time, placed, <<"Auto-assigned shift">>, TRUE)

\* the entry built for one slot, location being the outcome of the draw
AutoEntry(slot, location) ==
    LET prefs == slot.user.preferences
        start_time == IF prefs = NoPrefs THEN <<9, 0>>
                      ELSE prefs.preferred_start_time
        hours_worked == IF prefs = NoPrefs THEN DefaultHours
                        ELSE prefs.preferred_hours
        end_time == strftime(start_time[1] * 60 + start_time[2] + hours_worked * 60)
    IN Entry(slot.date, slot.user.username, slot.user.name, slot.user.subteam,
             start_time, end_time, location, <<"Auto-assigned shift">>, TRUE)

\* the ways the draws of one run can come out: one location per slot
DrawsFor(slots) ==
    {d \in [1..Len(slots) -> {"Office", "WFH"}] :
        \A i \in 1..Len(slots) : d[i] \in LocationDraws(slots[i].user.preferences,
                                                        slots[i].date)}

\* the rows kept when only auto-assigned rows of the dates are cleared
OutsideDates_keep_manual(schedule, dates) ==
    SeqFilter(schedule, {i \in 1..Len(schedule) :
                            \/ schedule[i].date \notin SeqRange(dates)
                            \/ ~schedule[i].auto_assigned})

\* the rows of the schedule whose date is not among the dates (~date_mask)
OutsideDates(schedule, dates) ==
    SeqFilter(schedule, {i \in 1..Len(schedule) : schedule[i].date \notin SeqRange(dates)})

\* the new entries added without the window being cleared first
auto_assign_shifts_additive(users, schedule, dates, draws) ==
    LET slots == AssignSlots(users, dates)
        new_schedules == [i \in 1..Len(slots) |-> AutoEntry(slots[i], draws[i])]
    IN IF users = <<>> \/ new_schedules = <<>>
       THEN [schedule |-> schedule, saved |-> FALSE]
       ELSE [schedule |-> schedule \o new_schedules, saved |-> TRUE]

\* _auto_assign_shifts: the schedule afterwards and whether it was saved
auto_assign_shifts(users, schedule, dates, draws) ==
    LET slots == AssignSlots(users, dates)
        new_schedules == [i \in 1..Len(slots) |-> AutoEntry(slots[i], draws[i])]
    IN IF users = <<>> \/ new_schedules = <<>>
       THEN [schedule |-> schedule, saved |-> FALSE]
       ELSE [schedule |-> OutsideDates(schedule, dates) \o new_schedules,
             saved |-> TRUE]

all_dates == get_current_week_dates \o get_next_week_dates

\* ---- swap workflow ------------------------------------------------------
\* the first request taken for one that matches no row
RequestIndex_any(requests, rid) ==
    IF \E i \in 1..Len(requests) : requests[i].request_id = rid
    THEN CHOOSE i \in 1..Len(requests) :
            /\ requests[i].request_id = rid
            /\ \A j \in 1..(i - 1) : requests[j].request_id # rid
    ELSE IF requests # <<>> THEN 1 ELSE 0

\* the position of the first request with the id, 0 when request_mask is empty
RequestIndex(requests, rid) ==
    IF \E i \in 1..Len(requests) : requests[i].request_id = rid
    THEN CHOOSE i \in 1..Len(requests) :
            /\ requests[i].request_id = rid
            /\ \A j \in 1..(i - 1) : requests[j].request_id # rid
    ELSE 0

\* the outcome of an operation on the loaded collections m: its return value,
\* the collections afterwards, the files it saved, the transfers it made
Outcome(ok, m, saved, transfers) ==
    [ok |-> ok, m |-> m, saved |-> saved, transfers |-> transfers]

\* the entry process_approved_swap builds for the target from the request
target_schedule(users, request) ==
    Entry(request.date, request.target_username, request.target_name,
          UserOf(users, request.target_username).subteam,
          request.start_time, request.end_time, request.location,
          <<"Swapped with", request.requester_name>>, request.auto_assigned)

\* process_approved_swap on the collections m
process_approved_swap(m, rid) ==
    LET i == RequestIndex(m.shift_requests, rid)
        request == m.shift_requests[i]
        schedule_id == request.schedule_id
    IN IF i = 0 THEN Outcome(FALSE, m, {}, 0)
       ELSE IF ~HasUser(m.users, request.target_username)
       THEN Outcome(FALSE, m, {}, 0)
       ELSE IF ~InIndex(m.schedule, schedule_id)
       THEN Outcome(FALSE, m, {}, 0)
       ELSE Outcome(TRUE,
                    [m EXCEPT !.schedule =
                        Drop(m.schedule, schedule_id)
                        \o <<target_schedule(m.users, request)>>],
                    {"schedule"}, 1)

\* the requests with the status of every row of the id set
WithStatus(requests, rid, status) ==
    [j \in 1..Len(requests) |->
        IF requests[j].request_id = rid
        THEN [requests[j] EXCEPT !.status = status] ELSE requests[j]]

\* the swap processed after a cancellation as well
ProcessesSwap_cancelled(status) == status \in {"Approved", "Cancelled"}

\* the statuses after whose notification the swap is processed
ProcessesSwap(status) == status = "Approved"

\* only the requester told of the failed transfer
notify_swap_issue_requester(notifications, requester_username, target_username) ==
    add_notification(notifications, requester_username, "swap_issue", "error")

\* the requester's newest notification, the approval, taken back before the
\* two error notifications are added
notify_swap_issue_retracting(notifications, requester_username, target_username) ==
    LET taken == [notifications EXCEPT ![requester_username] = Tail(@)]
    IN add_notification(add_notification(taken, requester_username,
                                         "swap_issue", "error"),
                        target_username, "swap_issue", "error")

\* the two error notifications after a transfer that failed
notify_swap_issue(notifications, requester_username, target_username) ==
    add_notification(add_notification(notifications, requester_username,
                                      "swap_issue", "error"),
                     target_username, "swap_issue", "error")

\* update_shift_request_status on the collections m
update_shift_request_status(m, rid, status) ==
    LET i == RequestIndex(m.shift_requests, rid)
        request == m.shift_requests[i]
        requester_username == request.requester_username
        target_username == request.target_username
        m1 == [m EXCEPT !.shift_requests = WithStatus(m.shift_requests, rid, status)]
        note(mm, u, message, type) ==
            [mm EXCEPT !.notifications = add_notification(mm.notifications, u, message, type)]
    IN IF i = 0 THEN Outcome(FALSE, m, {}, 0)
       ELSE IF ProcessesSwap(status) THEN
            IF ~HasUser(m.users, target_username)
            THEN Outcome(FALSE, m1, {"shift_requests"}, 0)
            ELSE LET m2 == note(m1, requester_username, "approved", "success")
                     p == process_approved_swap(m2, rid)
                 IN IF ~p.ok
                    THEN Outcome(FALSE,
                                 [m2 EXCEPT !.notifications =
                                     notify_swap_issue(m2.notifications,
                                                       requester_username,
                                                       target_username)],
                                 {"shift_requests", "notifications"}, 0)
                    ELSE Outcome(TRUE, p.m,
                                 {"shift_requests", "notifications", "schedule"}, 1)
       ELSE IF status = "Rejected" THEN
            IF ~HasUser(m.users, target_username)
            THEN Outcome(FALSE, m1, {"shift_requests"}, 0)
            ELSE Outcome(TRUE, note(m1, requester_username, "rejected", "warning"),
                         {"shift_requests", "notifications"}, 0)
       ELSE IF status = "Cancelled" THEN
            IF ~HasUser(m.users, requester_username)
            THEN Outcome(FALSE, m1, {"shift_requests"}, 0)
            ELSE Outcome(TRUE, note(m1, target_username, "cancelled", "info"),
                         {"shift_requests", "notifications"}, 0)
       ELSE Outcome(TRUE, m1, {"shift_requests"}, 0)

\* the request record built from the entry with the key
request_data_of(m, schedule_id, target_username, request_id) ==
    LET schedule_entry == m.schedule[schedule_id + 1]
    IN [request_id |-> request_id,
        requester_username |-> schedule_entry.username,
        requester_name |-> schedule_entry.name,
        schedule_id |-> schedule_id,
        date |-> schedule_entry.date,
        start_time |-> schedule_entry.start_time,
        end_time |-> schedule_entry.end_time,
        location |-> schedule_entry.location,
        target_username |-> target_username,
        target_name |-> UserOf(m.users, target_username).name,
        status |-> "Pending",
        notes |-> schedule_entry.notes,
        auto_assigned |-> schedule_entry.auto_assigned]

\* the target told of the request before the key and the target are looked up
create_shift_swap_request_eager(m, schedule_id, target_username, request_id) ==
    LET n1 == add_notification(m.notifications, target_username, "new_request", "info")
        told == [m EXCEPT !.notifications = n1]
        n2 == add_notification(n1, m.schedule[schedule_id + 1].username,
                               "request_sent", "success")
    IN IF ~InIndex(m.schedule, schedule_id) THEN Outcome(FALSE, told, {"notifications"}, 0)
       ELSE IF ~HasUser(m.users, target_username)
       THEN Outcome(FALSE, told, {"notifications"}, 0)
       ELSE Outcome(TRUE,
                    [m EXCEPT !.shift_requests =
                                  Append(m.shift_requests,
                                         request_data_of(m, schedule_id, target_username,
                                                         request_id)),
                              !.notifications = n2],
                    {"shift_requests", "notifications"}, 0)

\* the request created with only the target told of it
create_shift_swap_request_quiet(m, schedule_id, target_username, request_id) ==
    LET n1 == add_notification(m.notifications, target_username, "new_request", "info")
    IN IF ~InIndex(m.schedule, schedule_id) THEN Outcome(FALSE, m, {}, 0)
       ELSE IF ~HasUser(m.users, target_username) THEN Outcome(FALSE, m, {}, 0)
       ELSE Outcome(TRUE,
                    [m EXCEPT !.shift_requests =
                                  Append(m.shift_requests,
                                         request_data_of(m, schedule_id, target_username,
                                                         request_id)),
                              !.notifications = n1],
                    {"shift_requests", "notifications"}, 0)

\* create_shift_swap_request on the collections m; request_id is the fresh id
create_shift_swap_request(m, schedule_id, target_username, request_id) ==
    LET schedule_entry == m.schedule[schedule_id + 1]
        request_data ==
            [request_id |-> request_id,
             requester_username |-> schedule_entry.username,
             requester_name |-> schedule_entry.name,
             schedule_id |-> schedule_id,
             date |-> schedule_entry.date,
             start_time |-> schedule_entry.start_time,
             end_time |-> schedule_entry.end_time,
             location |-> schedule_entry.location,
             target_username |-> target_username,
             target_name |-> UserOf(m.users, target_username).name,
             status |-> "Pending",
             notes |-> schedule_entry.notes,
             auto_assigned |-> schedule_entry.auto_assigned]
        n1 == add_notification(m.notifications, target_username, "new_request", "info")
        n2 == add_notification(n1, schedule_entry.username, "request_sent", "success")
    IN IF ~InIndex(m.schedule, schedule_id) THEN Outcome(FALSE, m, {}, 0)
       ELSE IF ~HasUser(m.users, target_username) THEN Outcome(FALSE, m, {}, 0)
       ELSE Outcome(TRUE,
                    [m EXCEPT !.shift_requests = Append(m.shift_requests, request_data),
                              !.notifications = n2],
                    {"shift_requests", "notifications"}, 0)

\* the approve button of _show_incoming_swap_requests: the status update,
\* and after its success process_approved_swap once more
approve_click(m, rid) ==
    LET u == update_shift_request_status(m, rid, "Approved")
        p == process_approved_swap(u.m, rid)
    IN IF ~u.ok THEN u
       ELSE Outcome(p.ok, p.m, u.saved \cup p.saved, u.transfers + p.transfers)

\* ---- state --------------------------------------------------------------
VARIABLES
    users_file,            \* data/users.json
    schedule_file,         \* data/schedule.csv, the rows in file order
    shift_requests_file,   \* data/shift_requests.csv
    notifications_file,    \* data/notifications.json
    mem,                   \* per session: the collections its running script loaded
    sess,                  \* per session: st.session_state
    uuids,                 \* how many request ids uuid4 has handed out
    transfers,             \* per request id: the process_approved_swap calls that returned True
    last,                  \* the last handler that ran and what it returned
    clicks,                \* how many handlers have run
    backup_dir,            \* data/backups: the backup files of one collection
    clock,                 \* the wall clock's second, and how many saves were made
    preferences_file,      \* data/preferences.json
    unreadable             \* the files whose content does not parse

vars == <<users_file, schedule_file, shift_requests_file, notifications_file,
          mem, sess, uuids, transfers, last, clicks, backup_dir, clock,
          preferences_file, unreadable>>

files == <<users_file, schedule_file, shift_requests_file, notifications_file>>

\* the backup directory is followed only where backups are the subject: an
\* empty directory, the clock at its first second, no save made yet
NoBackups == backup_dir = {} /\ clock = [second |-> 0, saves |-> 0]

\* preferences.json and unreadable files are followed only where they are
\* the subject: every file parses, no preferences are stored
DiskSound == preferences_file = [u \in {} |-> NoPrefs] /\ unreadable = {}

\* _initialize_session_state on an empty st.session_state
FreshSession ==
    [authenticated |-> FALSE, current_user |-> NoUser, user_role |-> NoUser,
     auto_assignment_performed |-> FALSE,
     editing_schedule_id |-> NoId, selected_shift_for_swap |-> NoId]

\* the session after _authenticate_user succeeded for the user
LoggedIn(session, user) ==
    [session EXCEPT !.authenticated = TRUE, !.current_user = user.username,
                    !.user_role = user.role]

\* the record of a handler run: the handler, its session, its return value,
\* the transfers it made, the request and the form values it was given
Last(op, s, ok, n, rid, arg) ==
    [op |-> op, s |-> s, ok |-> ok, n |-> n, rid |-> rid, arg |-> arg]

\* the files after a handler that saved the named collections of m
Saved(m, saved) ==
    /\ schedule_file' = IF "schedule" \in saved THEN m.schedule ELSE schedule_file
    /\ shift_requests_file' =
          IF "shift_requests" \in saved THEN m.shift_requests ELSE shift_requests_file
    /\ notifications_file' =
          IF "notifications" \in saved THEN m.notifications ELSE notifications_file
    /\ users_file' = IF "users" \in saved THEN m.users ELSE users_file

\* the cell pandas reads from an empty field: astype(str) makes it 'nan'
NaN == <<>>

\* ':' in x, for a cell that is a time "HH:MM" or NaN
HasColon(x) == x # NaN

\* the times _load_schedule writes over a cell without a colon
DefaultStart == <<9, 0>>
DefaultEnd == <<18, 0>>

\* _load_schedule: the rows of the file with their time cells fixed
load_schedule(rows) ==
    [i \in 1..Len(rows) |->
        [rows[i] EXCEPT
            !.start_time = IF HasColon(@) THEN @ ELSE DefaultStart,
            !.end_time = IF HasColon(@) THEN @ ELSE DefaultEnd]]

\* the collections as read, the schedule without its rows of the current and
\* the next week
Loaded_windowless ==
    [users |-> users_file,
     schedule |-> OutsideDates(load_schedule(schedule_file), all_dates),
     shift_requests |-> shift_requests_file,
     notifications |-> notifications_file]

\* _load_data: the collections as read, the schedule with its time cells fixed
Loaded == [users |-> users_file, schedule |-> load_schedule(schedule_file),
           shift_requests |-> shift_requests_file,
           notifications |-> notifications_file]

Running(s) == mem[s] # Null

\* the script run of session s, started by a click, ends
EndRun(s) ==
    /\ mem' = [mem EXCEPT ![s] = Null]
    /\ clicks' = clicks + 1
    /\ UNCHANGED <<backup_dir, clock,
                   preferences_file, unreadable>>

\* a schedule file of an earlier session: an entry a manager added by hand
\* beyond the two-week window, then the first construction's auto-assignment
\* with every draw coming out as Office
FirstSchedule ==
    LET later == Today - weekday(Today) + 2 * DaysPerWeek
        by_hand == Entry(later, "bob", "Bob", "Brokerage", <<9, 0>>, <<17, 0>>,
                         "Hybrid", <<>>, FALSE)
        slots == AssignSlots(DefaultRoster, all_dates)
    IN auto_assign_shifts(DefaultRoster, <<by_hand>>, all_dates,
                          [i \in 1..Len(slots) |-> "Office"]).schedule

Init ==
    /\ users_file = DefaultRoster
    /\ schedule_file = FirstSchedule
    /\ shift_requests_file = <<>>
    /\ notifications_file = [u \in {"alice", "bob"} |-> <<>>]
    /\ mem = [s \in Sessions |-> Null]
    /\ sess = [s \in Sessions |->
                 [LoggedIn(FreshSession,
                           UserOf(DefaultRoster, IF s = "s1" THEN "alice" ELSE "bob"))
                  EXCEPT !.auto_assignment_performed = TRUE]]
    /\ uuids = 0
    /\ transfers = <<>>
    /\ last = Last("init", "s1", TRUE, 0, 0, <<>>)
    /\ clicks = 0
    /\ NoBackups
    /\ DiskSound

\* ---- the constructor ----------------------------------------------------
\* TeamScheduleSystem(): _load_data, then _check_auto_assignment, which on the
\* first construction of a session replaces the two-week window.  _load_data
\* writes the fixed schedule back, which changes nothing in a file this program
\* wrote
Begin(s) ==
    /\ ~Running(s) /\ clicks < MaxClicks
    /\ IF sess[s].auto_assignment_performed
       THEN /\ mem' = [mem EXCEPT ![s] = Loaded]
            /\ schedule_file' = Loaded.schedule
            /\ UNCHANGED <<sess, users_file, shift_requests_file, notifications_file>>
       ELSE \E d \in DrawsFor(AssignSlots(users_file, all_dates)) :
              LET a == auto_assign_shifts(users_file, Loaded.schedule, all_dates, d)
              IN /\ mem' = [mem EXCEPT ![s] = [Loaded EXCEPT !.schedule = a.schedule]]
                 /\ schedule_file' = a.schedule
                 /\ sess' = [sess EXCEPT ![s].auto_assignment_performed = TRUE]
                 /\ UNCHANGED <<users_file, shift_requests_file, notifications_file>>
    /\ last' = Last("begin", s, TRUE, 0, 0, <<>>)
    /\ UNCHANGED <<uuids, transfers, clicks, backup_dir, clock,
                   preferences_file, unreadable>>

\* ---- manual schedule entry ---------------------------------------------
\* get_user_schedule: the keys of the user's entries on the date
get_user_schedule(schedule, username, date) ==
    {k \in 0..(Len(schedule) - 1) :
        schedule[k + 1].username = username /\ schedule[k + 1].date = date}

\* the overlap test with closed ranges: touching shifts conflict
Overlaps_closed(start_time, end_time, exist_start, exist_end) ==
    start_time <= exist_end /\ end_time >= exist_start

\* the overlap test of the submit handler, on times of day
Overlaps(start_time, end_time, exist_start, exist_end) ==
    start_time < exist_end /\ end_time > exist_start

\* is_editing of _create_schedule_input in this run
IsEditing(m, session) ==
    session.editing_schedule_id # NoId /\ InIndex(m.schedule, session.editing_schedule_id)

\* the keys the candidate is compared with
ComparisonSet(m, session, date) ==
    IF IsEditing(m, session)
    THEN get_user_schedule(m.schedule, session.current_user, date)
            \ {session.editing_schedule_id}
    ELSE get_user_schedule(m.schedule, session.current_user, date)

has_conflict(m, session, date, start_time, end_time) ==
    \E k \in ComparisonSet(m, session, date) :
        Overlaps(start_time, end_time,
                 parse_time(m.schedule[k + 1].start_time),
                 parse_time(m.schedule[k + 1].end_time))

\* the notifications after a manual change by the session's user: one to the
\* user, and one to every Admin and Manager unless the user is one or the
\* entry is marked auto-assigned
ChangeNotes(m, session, is_auto, own, own_type, theirs, their_type) ==
    LET n1 == add_notification(m.notifications, session.current_user, own, own_type)
    IN IF ~is_auto /\ session.user_role \notin {"Admin", "Manager"}
       THEN notify_all(n1, ManagerNames(m.users), theirs, their_type)
       ELSE n1

\* the submit button of the schedule form (Add Schedule / Update Schedule)
submit_schedule(m, session, date, start_time, end_time, location, auto_box) ==
    LET editing == IsEditing(m, session)
        id == session.editing_schedule_id
        old == m.schedule[id + 1]
        is_auto == IF session.user_role \in {"Admin", "Manager"} THEN auto_box
                   ELSE IF editing THEN old.auto_assigned ELSE FALSE
        notes == IF editing THEN old.notes ELSE <<>>
        user == UserOf(m.users, session.current_user)
        schedule_data == Entry(date, session.current_user, user.name, user.subteam,
                               strftime(start_time), strftime(end_time),
                               location, notes, is_auto)
    IN IF end_time <= start_time THEN Outcome(FALSE, m, {}, 0)
       ELSE IF has_conflict(m, session, date, start_time, end_time)
       THEN Outcome(FALSE, m, {}, 0)
       ELSE IF ~HasUser(m.users, session.current_user) THEN Outcome(FALSE, m, {}, 0)
       ELSE IF editing
       THEN Outcome(TRUE,
                    [m EXCEPT !.schedule = [m.schedule EXCEPT ![id + 1] = schedule_data],
                              !.notifications =
                                  ChangeNotes(m, session, is_auto, "schedule_updated",
                                              "success", "user_updated", "info")],
                    {"schedule", "notifications"}, 0)
       ELSE Outcome(TRUE,
                    [m EXCEPT !.schedule = Append(m.schedule, schedule_data),
                              !.notifications =
                                  ChangeNotes(m, session, is_auto, "schedule_added",
                                              "success", "user_added", "info")],
                    {"schedule", "notifications"}, 0)

\* the "Yes, Delete" button of _show_delete_confirmation
confirm_delete(m, session) ==
    LET schedule_id == session.editing_schedule_id
        m1 == [m EXCEPT !.schedule = Drop(m.schedule, schedule_id)]
    IN Outcome(TRUE,
               [m1 EXCEPT !.notifications =
                   ChangeNotes(m1, session, FALSE, "schedule_deleted", "info",
                               "user_deleted", "warning")],
               {"schedule", "notifications"}, 0)

\* ---- inputs of the model ------------------------------------------------
ManualDates == {0}
ManualTimes == {<<1020, 1260>>, <<780, 1260>>, <<1020, 780>>}
ManualLocations == {"Hybrid"}
ManualAuto == {FALSE}

\* ---- handlers -----------------------------------------------------------
\* a run that loaded before another session's write and has not ended
Stale(s) == Running(s) /\ mem[s] # Loaded

\* a handler of session s returned res: the files it saved, the end of the run;
\* the model lets no run lag more than one write of another session
Commit(s, op, res, rid, arg) ==
    /\ res.saved # {} => \A t \in Sessions \ {s} : ~Stale(t)
    /\ Saved(res.m, res.saved)
    /\ EndRun(s)
    /\ last' = Last(op, s, res.ok, res.transfers, rid, arg)

Acting(s) == Running(s) /\ sess[s].authenticated

\* _authenticate_user succeeding, with its welcome notification
Login(s, u) ==
    /\ Running(s) /\ ~sess[s].authenticated
    /\ HasUser(mem[s].users, u)
    /\ LET m == [mem[s] EXCEPT !.notifications =
                    add_notification(mem[s].notifications, u, "welcome", "success")]
       IN Commit(s, "login", Outcome(TRUE, m, {"notifications"}, 0), 0, <<>>)
    /\ sess' = [sess EXCEPT ![s] = LoggedIn(sess[s], UserOf(mem[s].users, u))]
    /\ UNCHANGED <<uuids, transfers>>

\* the Logout button: st.session_state cleared and initialised again
Logout(s) ==
    /\ Acting(s)
    /\ sess' = [sess EXCEPT ![s] = FreshSession]
    /\ EndRun(s)
    /\ last' = Last("logout", s, TRUE, 0, 0, <<>>)
    /\ UNCHANGED <<files, uuids, transfers>>

\* the Edit button of an entry the user owns, or any entry for Admin/Manager
SelectEdit(s, k) ==
    /\ Acting(s) /\ InIndex(mem[s].schedule, k)
    /\ \/ mem[s].schedule[k + 1].username = sess[s].current_user
       \/ sess[s].user_role \in {"Admin", "Manager"}
    /\ sess' = [sess EXCEPT ![s].editing_schedule_id = k]
    /\ EndRun(s)
    /\ last' = Last("select_edit", s, TRUE, 0, 0, <<k>>)
    /\ UNCHANGED <<files, uuids, transfers>>

\* the Swap button of an entry the user owns
SelectSwap(s, k) ==
    /\ Acting(s) /\ InIndex(mem[s].schedule, k)
    /\ mem[s].schedule[k + 1].username = sess[s].current_user
    /\ sess' = [sess EXCEPT ![s].selected_shift_for_swap = k]
    /\ EndRun(s)
    /\ last' = Last("select_swap", s, TRUE, 0, 0, <<k>>)
    /\ UNCHANGED <<files, uuids, transfers>>

\* the submit button of the schedule form
SubmitSchedule(s, date, times, location, auto_box) ==
    /\ Acting(s)
    /\ LET res == submit_schedule(mem[s], sess[s], date, times[1], times[2],
                                  location, auto_box)
       IN /\ Commit(s, "submit", res, 0, <<date, times[1], times[2]>>)
          /\ sess' = IF res.ok THEN [sess EXCEPT ![s].editing_schedule_id = NoId]
                     ELSE sess
    /\ UNCHANGED <<uuids, transfers>>

\* the delete confirmation of the entry being edited
ConfirmDelete(s) ==
    /\ Acting(s) /\ IsEditing(mem[s], sess[s])
    /\ Commit(s, "delete", confirm_delete(mem[s], sess[s]), 0, <<>>)
    /\ sess' = [sess EXCEPT ![s].editing_schedule_id = NoId]
    /\ UNCHANGED <<uuids, transfers>>

\* Send Request in the swap dialog, to another user
SendRequest(s, target) ==
    /\ Acting(s) /\ uuids < MaxRequests
    /\ InIndex(mem[s].schedule, sess[s].selected_shift_for_swap)
    /\ HasUser(mem[s].users, target) /\ target # sess[s].current_user
    /\ LET res == create_shift_swap_request(mem[s], sess[s].selected_shift_for_swap,
                                            target, uuids + 1)
       IN /\ Commit(s, "request", res, uuids + 1, <<>>)
          /\ sess' = IF res.ok THEN [sess EXCEPT ![s].selected_shift_for_swap = NoId]
                     ELSE sess
    /\ uuids' = uuids + 1
    /\ transfers' = Append(transfers, 0)

\* a request the page of the session shows with the status and the role
Shown(s, rid, role) ==
    \E i \in 1..Len(mem[s].shift_requests) :
        LET r == mem[s].shift_requests[i]
        IN /\ r.request_id = rid /\ r.status = "Pending"
           /\ (IF role = "target" THEN r.target_username
               ELSE r.requester_username) = sess[s].current_user

\* the Approve button of a pending incoming request
Approve(s, rid) ==
    /\ Acting(s) /\ Shown(s, rid, "target")
    /\ LET res == approve_click(mem[s], rid)
       IN /\ Commit(s, "approve", res, rid, <<>>)
          /\ transfers' = [transfers EXCEPT ![rid] = @ + res.transfers]
    /\ UNCHANGED <<sess, uuids>>

\* the Reject button of a pending incoming request
Reject(s, rid) ==
    /\ Acting(s) /\ Shown(s, rid, "target")
    /\ Commit(s, "reject", update_shift_request_status(mem[s], rid, "Rejected"),
              rid, <<>>)
    /\ UNCHANGED <<sess, uuids, transfers>>

\* the Cancel Request button of a pending outgoing request
Cancel(s, rid) ==
    /\ Acting(s) /\ Shown(s, rid, "requester")
    /\ Commit(s, "cancel", update_shift_request_status(mem[s], rid, "Cancelled"),
              rid, <<>>)
    /\ UNCHANGED <<sess, uuids, transfers>>

\* regenerate_auto_assignments, behind the sidebar button of Admin, Manager
\* and Team Lead
Regenerate(s) ==
    /\ Acting(s)
    /\ HasUser(mem[s].users, sess[s].current_user)
    /\ UserOf(mem[s].users, sess[s].current_user).role \in {"Admin", "Manager", "Team Lead"}
    /\ \E d \in DrawsFor(AssignSlots(mem[s].users, all_dates)) :
          LET cleared == OutsideDates(mem[s].schedule, all_dates)
              a == auto_assign_shifts(mem[s].users, cleared, all_dates, d)
          IN Commit(s, "regenerate",
                    Outcome(TRUE, [mem[s] EXCEPT !.schedule = a.schedule],
                            IF a.saved THEN {"schedule"} ELSE {}, 0), 0, <<>>)
    /\ UNCHANGED <<sess, uuids, transfers>>

Next ==
    \E s \in Sessions :
        \/ Begin(s)
        \/ \E u \in Usernames : Login(s, u)
        \/ Logout(s)
        \/ \E k \in 0..(Len(schedule_file) - 1) : SelectEdit(s, k)
        \/ \E k \in 0..(Len(schedule_file) - 1) : SelectSwap(s, k)
        \/ \E d \in ManualDates, t \in ManualTimes, l \in ManualLocations,
              b \in ManualAuto : SubmitSchedule(s, d, t, l, b)
        \/ ConfirmDelete(s)
        \/ \E u \in Usernames : SendRequest(s, u)
        \/ \E rid \in 1..uuids : Approve(s, rid)
        \/ \E rid \in 1..uuids : Reject(s, rid)
        \/ \E rid \in 1..uuids : Cancel(s, rid)
        \/ Regenerate(s)

Spec == Init /\ [][Next]_vars

\* ---- loading a schedule file written outside the program ---------------
\* a row of such a file: an entry of a user with a time cell possibly empty,
\* the end after the start where both are there
RawRows ==
    {Entry(Today - weekday(Today) + 2 * DaysPerWeek, "alice", "Alice", "Brokerage",
           t[1], t[2], "Office", <<>>, FALSE) :
        t \in {<<<<9, 0>>, <<20, 0>>>>, <<<<19, 0>>, <<20, 0>>>>,
               <<<<9, 0>>, NaN>>, <<<<19, 0>>, NaN>>,
               <<NaN, <<20, 0>>>>, <<NaN, NaN>>}}

RawSchedules == UNION {[1..n -> RawRows] : n \in 0..MaxRows}

InitLoad ==
    /\ users_file = DefaultRoster
    /\ schedule_file \in RawSchedules
    /\ shift_requests_file = <<>>
    /\ notifications_file = [u \in {"alice", "bob"} |-> <<>>]
    /\ mem = [s \in Sessions |-> Null]
    /\ sess = [s \in Sessions |->
                 [LoggedIn(FreshSession,
                           UserOf(DefaultRoster, IF s = "s1" THEN "alice" ELSE "bob"))
                  EXCEPT !.auto_assignment_performed = TRUE]]
    /\ uuids = 0
    /\ transfers = <<>>
    /\ last = Last("init", "s1", TRUE, 0, 0, <<>>)
    /\ clicks = 0
    /\ NoBackups
    /\ DiskSound

NextLoad == \E s \in Sessions : Begin(s) \/ Logout(s)

SpecLoad == InitLoad /\ [][NextLoad]_vars

\* ---- auto-assignment over any roster and any dates ---------------------
MaxRoster == 12
MaxDay == 7
MaxDates == 2
MaxRuns == 2

\* a roster of n users in dict order: the second and the fifth are in Control,
\* the others in Brokerage; the first two carry preferences
AutoRoster(n, mixed) ==
    [i \in 1..n |->
        [username |-> "u" \o ToString(i), name |-> "U" \o ToString(i),
         subteam |-> IF mixed /\ i \in {2, 5} THEN "Control" ELSE "Brokerage",
         role |-> "Regular",
         preferences |->
            IF i = 1 THEN [preferred_location |-> "Office",
                           preferred_days |-> {0, 2, 4},
                           preferred_start_time |-> <<9, 0>>,
                           preferred_hours |-> 8]
            ELSE IF i = 2 THEN [preferred_location |-> "WFH",
                                preferred_days |-> {1, 3},
                                preferred_start_time |-> <<10, 30>>,
                                preferred_hours |-> 7]
            ELSE NoPrefs]]

AutoRosters == {AutoRoster(n, mixed) : n \in 0..MaxRoster, mixed \in BOOLEAN}

\* the date lists a caller passes: days in calendar order, none twice
AutoDates ==
    {d \in UNION {[1..k -> 0..MaxDay] : k \in 0..MaxDates} :
        \A i \in 1..(Len(d) - 1) : d[i] < d[i + 1]}

\* the schedule before the first run: empty, or one entry made by hand, on a
\* day of the lists or after them
AutoSchedules ==
    {<<>>} \cup
    {<<Entry(d, "u1", "U1", "Brokerage", <<13, 0>>, <<17, 0>>, "Hybrid", <<>>, FALSE)>> :
        d \in {1, MaxDay + DaysPerWeek}}

InitAuto ==
    /\ users_file \in AutoRosters
    /\ schedule_file \in AutoSchedules
    /\ shift_requests_file = <<>>
    /\ notifications_file = [u \in {} |-> <<>>]
    /\ mem = [s \in Sessions |-> Null]
    /\ sess = [s \in Sessions |-> FreshSession]
    /\ uuids = 0
    /\ transfers = <<>>
    /\ \E dates \in AutoDates : last = Last("init", "s1", TRUE, 0, 0, dates)
    /\ clicks = 0
    /\ NoBackups
    /\ DiskSound

\* _auto_assign_shifts(dates) on the loaded roster and schedule
AutoRun ==
    /\ clicks < MaxRuns
    /\ \E d \in DrawsFor(AssignSlots(users_file, last.arg)) :
          LET a == auto_assign_shifts(users_file, schedule_file, last.arg, d)
          IN /\ schedule_file' = a.schedule
             /\ last' = Last("auto", "s1", a.saved, 0, 0, last.arg)
    /\ clicks' = clicks + 1
    /\ UNCHANGED <<users_file, shift_requests_file, notifications_file, mem, sess,
                   uuids, transfers, backup_dir, clock,
                   preferences_file, unreadable>>

NextAuto == AutoRun

SpecAuto == InitAuto /\ [][NextAuto]_vars

\* ---- user administration ------------------------------------------------
\* the dict without the key
WithoutKey(dict, key) == [u \in DOMAIN dict \ {key} |-> dict[u]]

\* the user deleted together with the entries of the schedule they own
delete_user_cascade(m, username) ==
    Outcome(TRUE,
            [m EXCEPT !.users = SeqFilter(m.users, {i \in 1..Len(m.users) :
                                                      m.users[i].username # username}),
                      !.schedule = SeqFilter(m.schedule,
                                             {i \in 1..Len(m.schedule) :
                                                 m.schedule[i].username # username})],
            {"users", "schedule"}, 0)

\* the "Yes, Delete User" button: the record leaves self.users, the inbox
\* leaves self.notifications, each changed collection is saved; the user's
\* stored preferences, which the model does not follow, go the same way
delete_user(m, username) ==
    LET users == SeqFilter(m.users, {i \in 1..Len(m.users) :
                                       m.users[i].username # username})
    IN IF username \in DOMAIN m.notifications
       THEN Outcome(TRUE, [m EXCEPT !.users = users,
                                    !.notifications = WithoutKey(@, username)],
                    {"users", "notifications"}, 0)
       ELSE Outcome(TRUE, [m EXCEPT !.users = users], {"users"}, 0)

\* the Admin Panel's confirmation for the user picked in its table
DeleteUser(s, username) ==
    /\ Acting(s)
    /\ sess[s].user_role \in {"Admin", "Manager"}
    /\ HasUser(mem[s].users, username)
    /\ Commit(s, "delete_user", delete_user(mem[s], username), 0, username)
    /\ UNCHANGED <<sess, uuids, transfers>>

NextAdmin ==
    \E s \in Sessions :
        \/ Begin(s)
        \/ \E u \in Usernames : Login(s, u)
        \/ Logout(s)
        \/ \E u \in Usernames : DeleteUser(s, u)
        \/ Regenerate(s)

SpecAdmin == Init /\ [][NextAdmin]_vars

\* ---- the engine on one instance, for any roster ------------------------
\* regenerate_auto_assignments on the instance's schedule: the window is
\* cleared in memory, then _auto_assign_shifts runs; the method returns True
regenerate_auto_assignments(users, schedule, draws) ==
    LET cleared == OutsideDates(schedule, all_dates)
        a == auto_assign_shifts(users, cleared, all_dates, draws)
    IN [ok |-> TRUE, schedule |-> a.schedule, saved |-> a.saved]

InitEngine ==
    /\ users_file \in AutoRosters
    /\ schedule_file \in {<<>>, FirstSchedule}
    /\ shift_requests_file = <<>>
    /\ notifications_file = [u \in {} |-> <<>>]
    /\ mem = [s \in Sessions |-> Null]
    /\ sess = [s \in Sessions |-> FreshSession]
    /\ uuids = 0
    /\ transfers = <<>>
    /\ last = Last("init", "s1", TRUE, 0, 0, <<>>)
    /\ clicks = 0
    /\ NoBackups
    /\ DiskSound

\* regenerate_auto_assignments called on the instance of the session, which
\* stays alive afterwards
CallRegenerate(s) ==
    /\ Running(s) /\ clicks < MaxRuns
    /\ \E d \in DrawsFor(AssignSlots(mem[s].users, all_dates)) :
          LET r == regenerate_auto_assignments(mem[s].users, mem[s].schedule, d)
          IN /\ mem' = [mem EXCEPT ![s].schedule = r.schedule]
             /\ schedule_file' = IF r.saved THEN r.schedule ELSE schedule_file
             /\ last' = Last("regenerate", s, r.ok, 0, 0, <<>>)
    /\ clicks' = clicks + 1
    /\ UNCHANGED <<users_file, shift_requests_file, notifications_file, sess, uuids,
                   transfers, backup_dir, clock,
                   preferences_file, unreadable>>

NextEngine == Begin("s1") \/ CallRegenerate("s1")

SpecEngine == InitEngine /\ [][NextEngine]_vars

\* ---- the public methods called one after another -----------------------
MaxCalls == 3

\* an inbox of n unread notifications, the newest first
FilledInbox(n) ==
    [i \in 1..n |-> [id |-> n + 1 - i, message |-> "note", type |-> "info",
                     read |-> FALSE]]

\* the usernames a caller passes: two users, and one that no collection knows
ApiUsernames == {"alice", "bob", "zed"}

\* the ids a caller passes: the oldest and the newest id ever given, and two
\* that no notification carries
ApiIds(notifications) == {0, 1, FreshId(notifications) - 1, FreshId(notifications)}

\* the keys a caller passes: those of the schedule, one before and one after
ApiKeys(schedule) == (-1)..Len(schedule)

InitApi ==
    /\ users_file = DefaultRoster
    /\ schedule_file = FirstSchedule
    /\ shift_requests_file = <<>>
    /\ \E n \in {0, InboxCap - 1, InboxCap} :
          notifications_file = [u \in {"alice"} |-> FilledInbox(n)]
    /\ mem = [s \in Sessions |-> Null]
    /\ sess = [s \in Sessions |-> FreshSession]
    /\ uuids = 0
    /\ transfers = <<>>
    /\ last = Last("init", "s1", TRUE, 0, 0, <<>>)
    /\ clicks = 0
    /\ NoBackups
    /\ DiskSound

\* what a call leaves alone besides the collections it works on
ApiCalled ==
    /\ clicks' = clicks + 1
    /\ UNCHANGED <<users_file, mem, sess, transfers, backup_dir, clock,
                   preferences_file, unreadable>>

CallAdd(username) ==
    /\ clicks < MaxCalls
    /\ notifications_file' = add_notification(notifications_file, username, "note", "info")
    /\ last' = Last("add", "s1", TRUE, 0, 0, [username |-> username, id |-> NoId])
    /\ ApiCalled
    /\ UNCHANGED <<schedule_file, shift_requests_file, uuids>>

CallMark(username, id) ==
    /\ clicks < MaxCalls
    /\ LET a == mark_notification_as_read(notifications_file, username, id)
       IN /\ notifications_file' = a.notifications
          /\ last' = Last("mark", "s1", a.ok, 0, 0, [username |-> username, id |-> id])
    /\ ApiCalled
    /\ UNCHANGED <<schedule_file, shift_requests_file, uuids>>

CallDelete(username, id) ==
    /\ clicks < MaxCalls
    /\ LET a == delete_notification(notifications_file, username, id)
       IN /\ notifications_file' = a.notifications
          /\ last' = Last("delete", "s1", a.ok, 0, 0, [username |-> username, id |-> id])
    /\ ApiCalled
    /\ UNCHANGED <<schedule_file, shift_requests_file, uuids>>

CallCreate(schedule_id, target_username) ==
    /\ clicks < MaxCalls
    /\ LET res == create_shift_swap_request(Loaded, schedule_id, target_username,
                                            uuids + 1)
       IN /\ Saved(res.m, res.saved)
          /\ last' = Last("create", "s1", res.ok, 0, uuids + 1,
                          [schedule_id |-> schedule_id,
                           target_username |-> target_username])
    /\ uuids' = uuids + 1
    /\ clicks' = clicks + 1
    /\ UNCHANGED <<mem, sess, transfers, backup_dir, clock,
                   preferences_file, unreadable>>

\* the request ids a caller passes: those given out so far, one never given
\* and the one given next
ApiRequestIds == 0..(uuids + 1)

CallUpdateStatus(request_id, status) ==
    /\ clicks < MaxCalls
    /\ LET res == update_shift_request_status(Loaded, request_id, status)
       IN /\ Saved(res.m, res.saved)
          /\ last' = Last("update", "s1", res.ok, res.transfers, request_id,
                          [status |-> status])
    /\ clicks' = clicks + 1
    /\ UNCHANGED <<mem, sess, uuids, transfers, backup_dir, clock,
                   preferences_file, unreadable>>

CallProcess(request_id) ==
    /\ clicks < MaxCalls
    /\ LET res == process_approved_swap(Loaded, request_id)
       IN /\ Saved(res.m, res.saved)
          /\ last' = Last("process", "s1", res.ok, res.transfers, request_id, <<>>)
    /\ clicks' = clicks + 1
    /\ UNCHANGED <<mem, sess, uuids, transfers, backup_dir, clock,
                   preferences_file, unreadable>>

NextApi ==
    \/ \E u \in ApiUsernames : CallAdd(u)
    \/ \E u \in ApiUsernames : \E id \in ApiIds(notifications_file) : CallMark(u, id)
    \/ \E u \in ApiUsernames : \E id \in ApiIds(notifications_file) : CallDelete(u, id)
    \/ \E k \in ApiKeys(schedule_file) : \E u \in ApiUsernames : CallCreate(k, u)
    \/ \E rid \in ApiRequestIds : \E status \in SHIFT_REQUEST_STATUS \ {"Pending"} :
          CallUpdateStatus(rid, status)
    \/ \E rid \in ApiRequestIds : CallProcess(rid)

SpecApi == InitApi /\ [][NextApi]_vars

\* ---- saves that fail ----------------------------------------------------
\* how the I/O of one _save_* call comes out: all of it works; the backup
\* copy fails, which _backup_file logs before the write goes on; the write
\* fails before the file is opened; the write fails after the file was
\* opened for writing, which leaves it empty
IoOutcomes == {"ok", "backup_error", "write_error", "write_cut"}

WriteFailed(io) == io \in {"write_error", "write_cut"}

\* the file after a save of content
written(file, content, empty, io) ==
    IF io = "write_error" THEN file
    ELSE IF io = "write_cut" THEN empty
    ELSE content

\* a failed save undoing the change in memory
after_save_rollback(before, attempted, io) ==
    IF WriteFailed(io) THEN before ELSE attempted

\* the collection in memory after the save: the except branch of _save_*
\* logs the error and leaves self.<collection> as the operation made it
after_save(before, attempted, io) == attempted

\* one instance, constructed from the files, on which methods are called
InitDisk ==
    /\ users_file = DefaultRoster
    /\ schedule_file \in {<<>>, FirstSchedule}
    /\ shift_requests_file = <<>>
    /\ notifications_file = [u \in {"alice"} |-> <<>>]
    /\ mem = [s \in Sessions |-> IF s = "s1" THEN Loaded ELSE Null]
    /\ sess = [s \in Sessions |-> [FreshSession EXCEPT !.auto_assignment_performed = TRUE]]
    /\ uuids = 0
    /\ transfers = <<>>
    /\ last = Last("init", "s1", TRUE, 0, 0, [io |-> "ok", failures |-> 0])
    /\ clicks = 0
    /\ NoBackups
    /\ DiskSound

\* the record of a call: how its save came out, and how many writes have
\* failed so far
DiskLast(op, ok, io) ==
    Last(op, "s1", ok, 0, 0,
         [io |-> io,
          failures |-> last.arg.failures + (IF WriteFailed(io) THEN 1 ELSE 0)])

\* regenerate_auto_assignments with a _save_schedule that comes out as io
DiskRegenerate(io) ==
    /\ clicks < MaxCalls
    /\ \E d \in DrawsFor(AssignSlots(mem["s1"].users, all_dates)) :
          LET before == mem["s1"].schedule
              r == regenerate_auto_assignments(mem["s1"].users, before, d)
          IN /\ mem' = [mem EXCEPT !["s1"].schedule =
                            IF r.saved THEN after_save(before, r.schedule, io)
                            ELSE r.schedule]
             /\ schedule_file' = IF r.saved
                                  THEN written(schedule_file, r.schedule, <<>>, io)
                                  ELSE schedule_file
             /\ last' = DiskLast("disk_regenerate", r.ok, io)
    /\ clicks' = clicks + 1
    /\ UNCHANGED <<users_file, shift_requests_file, notifications_file, sess, uuids,
                   transfers, backup_dir, clock,
                   preferences_file, unreadable>>

\* add_notification with a _save_notifications that comes out as io
DiskAdd(username, io) ==
    /\ clicks < MaxCalls
    /\ LET before == mem["s1"].notifications
           attempted == add_notification(before, username, "note", "info")
       IN /\ mem' = [mem EXCEPT !["s1"].notifications =
                         after_save(before, attempted, io)]
          /\ notifications_file' =
                written(notifications_file, attempted, [u \in {} |-> <<>>], io)
    /\ last' = DiskLast("disk_add", TRUE, io)
    /\ clicks' = clicks + 1
    /\ UNCHANGED <<users_file, schedule_file, shift_requests_file, sess, uuids,
                   transfers, backup_dir, clock,
                   preferences_file, unreadable>>

NextDisk ==
    \/ \E io \in IoOutcomes : DiskRegenerate(io)
    \/ \E u \in {"alice", "bob"} : \E io \in IoOutcomes : DiskAdd(u, io)

SpecDisk == InitDisk /\ [][NextDisk]_vars

\* ---- files that do not parse --------------------------------------------
Collections == {"users", "schedule", "shift_requests", "preferences", "notifications"}

\* the user _load_users falls back to
FallbackAdmin ==
    [username |-> "admin", name |-> "System Admin", subteam |-> "Management",
     role |-> "Admin", preferences |-> NoPrefs]

\* the preferences _load_user_preferences gives a user that has none stored
DefaultPreferences ==
    [preferred_location |-> "Office", preferred_days |-> {},
     preferred_start_time |-> <<9, 0>>, preferred_hours |-> 8]

\* _load_user_preferences of a file that parses: the users without stored
\* preferences get the defaults, in memory
load_user_preferences(file, users) ==
    [u \in DOMAIN file \cup {users[i].username : i \in 1..Len(users)} |->
        IF u \in DOMAIN file THEN file[u] ELSE DefaultPreferences]

\* _load_data: each collection as its loader leaves it in memory, given the
\* files that do not parse
load_data(bad) ==
    LET users == IF "users" \in bad THEN <<FallbackAdmin>> ELSE users_file
    IN [users |-> users,
        schedule |-> IF "schedule" \in bad THEN <<>>
                     ELSE load_schedule(schedule_file),
        shift_requests |-> IF "shift_requests" \in bad THEN <<>>
                           ELSE shift_requests_file,
        preferences |-> IF "preferences" \in bad THEN [u \in {} |-> NoPrefs]
                        ELSE load_user_preferences(preferences_file, users),
        notifications |-> IF "notifications" \in bad THEN [u \in {} |-> <<>>]
                          ELSE notifications_file]

\* the collections whose loader saves after a failed load
SavedOnFailure == {"users", "schedule", "shift_requests", "notifications"}

InitMalformed ==
    /\ users_file = DefaultRoster
    /\ schedule_file = FirstSchedule
    /\ shift_requests_file = <<>>
    /\ notifications_file = [u \in {"alice"} |-> FilledInbox(1)]
    /\ mem = [s \in Sessions |-> Null]
    /\ sess = [s \in Sessions |->
                 [LoggedIn(FreshSession,
                           UserOf(DefaultRoster, IF s = "s1" THEN "alice" ELSE "bob"))
                  EXCEPT !.auto_assignment_performed = TRUE]]
    /\ uuids = 0
    /\ transfers = <<>>
    /\ last = Last("init", "s1", TRUE, 0, 0, {})
    /\ clicks = 0
    /\ NoBackups
    /\ preferences_file = [u \in {"alice"} |-> DefaultPreferences]
    /\ unreadable \in SUBSET Collections

\* the constructor of a run of a session that has auto-assigned before:
\* _load_data with its fallbacks and the saves they make
LoadData(s) ==
    /\ ~Running(s)
    /\ LET m == load_data(unreadable)
       IN /\ mem' = [mem EXCEPT ![s] = m]
          /\ users_file' = m.users
          /\ schedule_file' = m.schedule
          /\ shift_requests_file' = m.shift_requests
          /\ notifications_file' = m.notifications
    /\ unreadable' = unreadable \ SavedOnFailure
    /\ last' = Last("load", s, TRUE, 0, 0, unreadable)
    /\ UNCHANGED <<sess, uuids, transfers, clicks, backup_dir, clock, preferences_file>>

\* a file damaged from outside the program
Damage(c) ==
    /\ c \notin unreadable /\ clicks < MaxCalls
    /\ unreadable' = unreadable \cup {c}
    /\ clicks' = clicks + 1
    /\ last' = Last("damage", "s1", TRUE, 0, 0, {c})
    /\ UNCHANGED <<users_file, schedule_file, shift_requests_file, notifications_file,
                   mem, sess, uuids, transfers, backup_dir, clock, preferences_file>>

NextMalformed ==
    \/ \E s \in Sessions : LoadData(s) \/ Logout(s)
    \/ \E c \in Collections : Damage(c)

SpecMalformed == InitMalformed /\ [][NextMalformed]_vars

\* ---- the preferences page ------------------------------------------------
\* the values the widgets of the page can be set to: the location select box,
\* the days multiselect (weekdays, Monday being 0), the time input and the
\* hours slider
PreferenceInputs(field) ==
    IF field = "preferred_location" THEN {"Office", "WFH", "Hybrid", "No Preference"}
    ELSE IF field = "preferred_days" THEN {{}, {1, 3}}
    ELSE IF field = "preferred_start_time" THEN {<<7, 0>>, <<9, 0>>, <<10, 30>>}
    ELSE {4, 8, 12}

PreferenceFields ==
    {"preferred_location", "preferred_days", "preferred_start_time", "preferred_hours"}

\* _show_user_preferences after one widget of the user was changed: the
\* value goes into self.preferences[username], _save_preferences writes
\* preferences.json
show_user_preferences(preferences, username, field, value) ==
    LET mine == IF username \in DOMAIN preferences THEN preferences
                ELSE [u \in DOMAIN preferences \cup {username} |->
                        IF u = username THEN DefaultPreferences ELSE preferences[u]]
    IN [mine EXCEPT ![username] = [mine[username] EXCEPT ![field] = value]]

InitPrefs ==
    /\ users_file \in {AutoRoster(n, mixed) : n \in 1..3, mixed \in BOOLEAN}
    /\ schedule_file = <<>>
    /\ shift_requests_file = <<>>
    /\ notifications_file = [u \in {} |-> <<>>]
    /\ mem = [s \in Sessions |-> Null]
    /\ sess = [s \in Sessions |-> FreshSession]
    /\ uuids = 0
    /\ transfers = <<>>
    /\ last = Last("init", "s1", TRUE, 0, 0, <<>>)
    /\ clicks = 0
    /\ NoBackups
    /\ preferences_file = load_user_preferences([u \in {} |-> NoPrefs], users_file)
    /\ unreadable = {}

\* one run of the script in which the user changed one widget of the page
SavePreference(username, field, value) ==
    /\ clicks < MaxCalls
    /\ HasUser(users_file, username)
    /\ LET preferences == load_user_preferences(preferences_file, users_file)
       IN /\ value # preferences[username][field]
          /\ preferences_file' =
                show_user_preferences(preferences, username, field, value)
    /\ last' = Last("preferences", "s1", TRUE, 0, 0, username)
    /\ clicks' = clicks + 1
    /\ UNCHANGED <<users_file, schedule_file, shift_requests_file, notifications_file,
                   mem, sess, uuids, transfers, backup_dir, clock, unreadable>>

\* _auto_assign_shifts(dates) on the roster of users.json
PrefsAuto(dates) ==
    /\ clicks < MaxCalls
    /\ \E d \in DrawsFor(AssignSlots(users_file, dates)) :
          LET a == auto_assign_shifts(users_file, schedule_file, dates, d)
          IN /\ schedule_file' = a.schedule
             /\ last' = Last("auto", "s1", a.saved, 0, 0, dates)
    /\ clicks' = clicks + 1
    /\ UNCHANGED <<users_file, shift_requests_file, notifications_file, mem, sess,
                   uuids, transfers, backup_dir, clock,
                   preferences_file, unreadable>>

NextPrefs ==
    \/ \E i \in 1..Len(users_file), field \in PreferenceFields :
          \E value \in PreferenceInputs(field) :
              SavePreference(users_file[i].username, field, value)
    \/ \E day \in 0..1 : PrefsAuto(<<day>>)

SpecPrefs == InitPrefs /\ [][NextPrefs]_vars

\* ---- where entries come from ---------------------------------------------
\* the roster with a first member who prefers Hybrid
EntryRoster == [DefaultRoster EXCEPT ![1].preferences.preferred_location = "Hybrid"]

InitEntries ==
    /\ users_file = EntryRoster
    /\ schedule_file = FirstSchedule
    /\ shift_requests_file = <<>>
    /\ notifications_file = [u \in {"alice", "bob"} |-> <<>>]
    /\ mem = [s \in Sessions |-> Null]
    /\ sess = [s \in Sessions |->
                 [LoggedIn(FreshSession,
                           UserOf(EntryRoster, IF s = "s1" THEN "alice" ELSE "bob"))
                  EXCEPT !.auto_assignment_performed = TRUE]]
    /\ uuids = 0
    /\ transfers = <<>>
    /\ last = Last("init", "s1", TRUE, 0, 0, <<>>)
    /\ clicks = 0
    /\ NoBackups
    /\ DiskSound

\* the operations that write entries: the constructor, the schedule form, the
\* swap workflow and the regenerate button
NextEntries ==
    \E s \in Sessions :
        \/ Begin(s)
        \/ \E u \in Usernames : Login(s, u)
        \/ Logout(s)
        \/ \E k \in 0..(Len(schedule_file) - 1) : SelectSwap(s, k)
        \/ \E d \in ManualDates, t \in ManualTimes, l \in ManualLocations,
              b \in ManualAuto : SubmitSchedule(s, d, t, l, b)
        \/ \E u \in Usernames : SendRequest(s, u)
        \/ \E rid \in 1..uuids : Approve(s, rid)
        \/ Regenerate(s)

SpecEntries == InitEntries /\ [][NextEntries]_vars

\* ---- user records --------------------------------------------------------
\* the users with the record of username given the name, team and role
WithRecord(users, username, name, subteam, role) ==
    [i \in 1..Len(users) |->
        IF users[i].username = username
        THEN [users[i] EXCEPT !.name = name, !.subteam = subteam, !.role = role]
        ELSE users[i]]

\* the edit carried over to the entries of the user and to the requests that
\* name the user
edit_user_resync(m, username, name, subteam, role) ==
    IF name = "" THEN Outcome(FALSE, m, {}, 0)
    ELSE Outcome(TRUE,
                 [m EXCEPT
                     !.users = WithRecord(m.users, username, name, subteam, role),
                     !.schedule =
                        [i \in 1..Len(m.schedule) |->
                            IF m.schedule[i].username = username
                            THEN [m.schedule[i] EXCEPT !.name = name,
                                                       !.subteam = subteam]
                            ELSE m.schedule[i]],
                     !.shift_requests =
                        [i \in 1..Len(m.shift_requests) |->
                            LET r == m.shift_requests[i]
                            IN [r EXCEPT
                                  !.requester_name =
                                      IF r.requester_username = username THEN name ELSE @,
                                  !.target_name =
                                      IF r.target_username = username THEN name ELSE @]]],
                 {"users", "schedule", "shift_requests"}, 0)

\* Save Changes of _show_edit_user_form, the email being well formed: an
\* empty name is refused, otherwise the record is updated and users.json saved
edit_user(m, username, name, subteam, role) ==
    IF name = "" THEN Outcome(FALSE, m, {}, 0)
    ELSE Outcome(TRUE,
                 [m EXCEPT !.users = WithRecord(m.users, username, name, subteam, role)],
                 {"users"}, 0)

\* the checks and the new record of _register_new_user and of the Add User
\* form; fields_ok stands for the checks of the other fields (none empty,
\* passwords equal and long enough, username and email well formed)
new_user(m, username, name, subteam, role, fields_ok) ==
    IF ~fields_ok THEN Outcome(FALSE, m, {}, 0)
    ELSE IF HasUser(m.users, username) THEN Outcome(FALSE, m, {}, 0)
    ELSE Outcome(TRUE,
                 [m EXCEPT !.users =
                     Append(m.users, [username |-> username, name |-> name,
                                      subteam |-> subteam, role |-> role,
                                      preferences |-> NoPrefs])],
                 {"users"}, 0)

\* the Admin Panel's edit form for the user picked in its table
EditUser(s, username, name, subteam, role) ==
    /\ Acting(s)
    /\ sess[s].user_role \in {"Admin", "Manager"}
    /\ HasUser(mem[s].users, username)
    /\ Commit(s, "edit_user", edit_user(mem[s], username, name, subteam, role), 0,
              [username |-> username, name |-> name, subteam |-> subteam])
    /\ UNCHANGED <<sess, uuids, transfers>>

\* a run that adds a user: users.json is saved, then the defaults of the new
\* user go into self.preferences and preferences.json is saved
AddsUser(s, op, res, username, fields_ok) ==
    /\ res.saved # {} => \A t \in Sessions \ {s} : ~Stale(t)
    /\ Saved(res.m, res.saved)
    /\ preferences_file' =
          IF res.ok THEN load_user_preferences(preferences_file, res.m.users)
          ELSE preferences_file
    /\ mem' = [mem EXCEPT ![s] = Null]
    /\ clicks' = clicks + 1
    /\ last' = Last(op, s, res.ok, 0, 0,
                    [username |-> username, fields_ok |-> fields_ok])
    /\ UNCHANGED <<sess, uuids, transfers, backup_dir, clock, unreadable>>

\* Register Account on the login page: the new user is Regular
Register(s, username, name, subteam, fields_ok) ==
    /\ Running(s) /\ ~sess[s].authenticated
    /\ AddsUser(s, "register",
                new_user(mem[s], username, name, subteam, "Regular", fields_ok),
                username, fields_ok)

\* Add User in the Admin Panel
AddUser(s, username, name, subteam, role, fields_ok) ==
    /\ Acting(s)
    /\ sess[s].user_role \in {"Admin", "Manager"}
    /\ AddsUser(s, "add_user",
                new_user(mem[s], username, name, subteam, role, fields_ok),
                username, fields_ok)

NextUsers ==
    \E s \in Sessions :
        \/ Begin(s)
        \/ \E u \in Usernames : Login(s, u)
        \/ Logout(s)
        \/ \E k \in 0..(Len(schedule_file) - 1) : SelectSwap(s, k)
        \/ \E u \in Usernames : SendRequest(s, u)
        \/ \E u \in Usernames, name \in {"", "Alicia"} :
              EditUser(s, u, name, "Control", "Team Lead")
        \/ \E u \in {"alice", "carol"}, ok \in BOOLEAN :
              Register(s, u, "Carol", "Control", ok)
        \/ \E u \in {"alice", "carol"}, ok \in BOOLEAN :
              AddUser(s, u, "Caroline", "Control", "Team Lead", ok)

SpecUsers == Init /\ [][NextUsers]_vars

\* ---- backups ------------------------------------------------------------
MaxSaves == 11
max_backups == 10

\* a backup file: its name is the second of the clock at which it was taken
\* (strftime('%Y%m%d_%H%M%S')), its mtime that of the data file it copies
\* (shutil.copy2), counted as the save that wrote that file; save is the save
\* that took the backup
BackupFile(name, mtime, save) == [name |-> name, mtime |-> mtime, save |-> save]

\* _cleanup_old_backups: the max_backups files of the latest mtime stay
cleanup_old_backups(dir) ==
    {b \in dir : Cardinality({c \in dir : c.mtime > b.mtime}) < max_backups}

\* _backup_file of a data file that exists: the copy replaces a backup of the
\* same name, then the old backups are cleaned up
backup_file(dir, second, mtime, save) ==
    cleanup_old_backups({b \in dir : b.name # second}
                        \cup {BackupFile(second, mtime, save)})

InitBackup ==
    /\ users_file = DefaultRoster
    /\ schedule_file = FirstSchedule
    /\ shift_requests_file = <<>>
    /\ notifications_file = [u \in {"alice"} |-> <<>>]
    /\ mem = [s \in Sessions |-> Null]
    /\ sess = [s \in Sessions |-> FreshSession]
    /\ uuids = 0
    /\ transfers = <<>>
    /\ last = Last("init", "s1", TRUE, 0, 0, <<>>)
    /\ clicks = 0
    /\ NoBackups
    /\ DiskSound

\* add_notification with its _save_notifications: the backup of the file as
\* the save before left it, then the write
SaveNotifications ==
    /\ clock.saves < MaxSaves
    /\ notifications_file' = add_notification(notifications_file, "alice", "note", "info")
    /\ backup_dir' = backup_file(backup_dir, clock.second, clock.saves, clock.saves + 1)
    /\ clock' = [clock EXCEPT !.saves = clock.saves + 1]
    /\ last' = Last("add", "s1", TRUE, 0, 0, [username |-> "alice", id |-> NoId])
    /\ UNCHANGED <<users_file, schedule_file, shift_requests_file, mem, sess, uuids,
                   transfers, clicks, preferences_file, unreadable>>

\* the clock reaches its next second
Tick ==
    /\ clock.second < MaxSaves
    /\ clock' = [clock EXCEPT !.second = clock.second + 1]
    /\ UNCHANGED <<users_file, schedule_file, shift_requests_file, notifications_file,
                   mem, sess, uuids, transfers, last, clicks, backup_dir,
                   preferences_file, unreadable>>

NextBackup == SaveNotifications \/ Tick

SpecBackup == InitBackup /\ [][NextBackup]_vars

\* ---- claims -------------------------------------------------------------
\* the request with the id among the requests, read where one exists
RequestOf(requests, rid) == requests[RequestIndex(requests, rid)]

\* C1: for every swap request, at most one ownership transfer
\* (process_approved_swap) for that request ever succeeds
C1_AtMostOneTransfer ==
    \A rid \in DOMAIN transfers : transfers[rid] <= 1

\* C2: an approval of a pending request whose referenced entry is live removes
\* exactly that entry and adds exactly one entry owned by the target, so the
\* schedule afterwards is the loaded one without the original, plus the new one
C2_ApprovalMovesOneEntry ==
    [][(last'.op = "approve" /\ last'.n > 0) =>
          LET m == mem[last'.s]
              request == RequestOf(m.shift_requests, last'.rid)
          IN /\ Len(schedule_file') = Len(m.schedule)
             /\ SubSeq(schedule_file', 1, Len(m.schedule) - 1)
                   = Drop(m.schedule, request.schedule_id)
             /\ schedule_file'[Len(schedule_file')].username = request.target_username
      ]_vars

\* C3: a persisted request whose status is Approved, Rejected or Cancelled
\* keeps that status in every later state
C3_TerminalStatusAbsorbing ==
    [][\A i \in 1..Len(shift_requests_file) :
          shift_requests_file[i].status # "Pending" =>
             /\ RequestIndex(shift_requests_file', shift_requests_file[i].request_id) # 0
             /\ RequestOf(shift_requests_file', shift_requests_file[i].request_id).status
                   = shift_requests_file[i].status
      ]_vars

\* the keys in use: the schedule_id of a pending request, the key a session
\* is editing
ReferencedKeys ==
    {shift_requests_file[i].schedule_id :
        i \in {j \in 1..Len(shift_requests_file) :
                 shift_requests_file[j].status = "Pending"}}
    \cup {sess[s].editing_schedule_id : s \in Sessions}

\* C4: a key in use that resolves before and after a step resolves to the same
\* entry, unless the step is the edit of that very entry
C4_KeysNeverRebound ==
    [][\A k \in ReferencedKeys :
          (/\ InIndex(schedule_file, k) /\ InIndex(schedule_file', k)
           /\ ~(last'.op = "submit" /\ sess[last'.s].editing_schedule_id = k))
          => schedule_file'[k + 1] = schedule_file[k + 1]
      ]_vars

\* C5: no two persisted entries of one user on one date overlap as half-open
\* time ranges
C5_NoOverlap ==
    \A i, j \in 1..Len(schedule_file) :
        (/\ i < j
         /\ schedule_file[i].username = schedule_file[j].username
         /\ schedule_file[i].date = schedule_file[j].date)
        => ~(/\ parse_time(schedule_file[i].start_time)
                   < parse_time(schedule_file[j].end_time)
             /\ parse_time(schedule_file[i].end_time)
                   > parse_time(schedule_file[j].start_time))

\* the submitted range <<date, start, end>> overlaps an entry the session's
\* user has on the date in the loaded schedule, the entry being edited aside
CandidateOverlaps(m, session, arg) ==
    \E k \in 0..(Len(m.schedule) - 1) :
        /\ m.schedule[k + 1].username = session.current_user
        /\ m.schedule[k + 1].date = arg[1]
        /\ ~(IsEditing(m, session) /\ k = session.editing_schedule_id)
        /\ arg[2] < parse_time(m.schedule[k + 1].end_time)
        /\ arg[3] > parse_time(m.schedule[k + 1].start_time)

\* C6: a manual create or edit whose range overlaps an entry of the same user
\* on the same date is rejected and leaves every file as it was; one that
\* overlaps none, touching ranges included, is accepted and its entry saved
C6_ConflictRejected ==
    [][last'.op = "submit" =>
          LET m == mem[last'.s]
              session == sess[last'.s]
              arg == last'.arg
          IN /\ CandidateOverlaps(m, session, arg) =>
                   /\ ~last'.ok
                   /\ schedule_file' = schedule_file
                   /\ notifications_file' = notifications_file
             /\ (arg[3] > arg[2] /\ ~CandidateOverlaps(m, session, arg)) =>
                   /\ last'.ok
                   /\ \E i \in 1..Len(schedule_file') :
                         /\ schedule_file'[i].username = session.current_user
                         /\ schedule_file'[i].date = arg[1]
                         /\ parse_time(schedule_file'[i].start_time) = arg[2]
                         /\ parse_time(schedule_file'[i].end_time) = arg[3]
      ]_vars

\* a submit with a valid range was rejected while the user's schedule has an
\* entry on the date that the range overlaps
C6_Witness ==
    /\ last.op = "submit" /\ ~last.ok /\ last.arg[3] > last.arg[2]
    /\ \E i \in 1..Len(schedule_file) :
          /\ schedule_file[i].username = sess[last.s].current_user
          /\ schedule_file[i].date = last.arg[1]
          /\ last.arg[2] < parse_time(schedule_file[i].end_time)
          /\ last.arg[3] > parse_time(schedule_file[i].start_time)

\* the entries of the schedule dated in the window
InsideDates(schedule, dates) ==
    SeqFilter(schedule, {i \in 1..Len(schedule) : schedule[i].date \in SeqRange(dates)})

\* a step in which auto-assignment ran: a regeneration, or the constructor
\* of a session that had not yet assigned
AutoAssigned(s) ==
    \/ last'.op = "regenerate" /\ last'.s = s
    \/ /\ last'.op = "begin" /\ last'.s = s
       /\ ~sess[s].auto_assignment_performed

\* C8: cancelling a pending request persists the status Cancelled, makes no
\* transfer and leaves the schedule as it was
C8_CancelLeavesSchedule ==
    [][last'.op = "cancel" =>
          /\ RequestOf(shift_requests_file', last'.rid).status = "Cancelled"
          /\ schedule_file' = schedule_file
          /\ transfers' = transfers
          /\ last'.n = 0
      ]_vars

\* a pending request has just been cancelled
C8_Witness ==
    /\ last.op = "cancel" /\ last.ok
    /\ RequestOf(shift_requests_file, last.rid).status = "Cancelled"
    /\ schedule_file # <<>>

C10_DestructiveReplace ==
    [][\A s \in Sessions : AutoAssigned(s) =>
          LET before == IF last'.op = "regenerate" THEN mem[s].schedule
                        ELSE schedule_file
              inside == InsideDates(schedule_file', all_dates)
              slots == AssignSlots(users_file, all_dates)
          IN /\ OutsideDates(schedule_file', all_dates)
                   = OutsideDates(before, all_dates)
             /\ Len(inside) = Len(slots)
             /\ \A i \in 1..Len(inside) :
                   /\ inside[i].auto_assigned
                   /\ inside[i].notes = <<"Auto-assigned shift">>
                   /\ inside[i].date = slots[i].date
                   /\ inside[i].username = slots[i].user.username
      ]_vars

\* a session's first construction has just auto-assigned over a schedule that
\* keeps an entry dated outside the window
C10_Witness ==
    /\ last.op = "begin" /\ Running(last.s)
    /\ ~sess[last.s].authenticated /\ sess[last.s].auto_assignment_performed
    /\ OutsideDates(schedule_file, all_dates) # <<>>
    /\ InsideDates(schedule_file, all_dates) # <<>>

\* C7: every entry of a loaded schedule ends strictly after it starts
C7_EndAfterStart ==
    \A s \in Sessions :
        Running(s) =>
            \A i \in 1..Len(mem[s].schedule) :
                parse_time(mem[s].schedule[i].end_time)
                    > parse_time(mem[s].schedule[i].start_time)

\* the (date, username, start, end) of the entries of a schedule
Selection(schedule) ==
    {<<schedule[i].date, schedule[i].username, schedule[i].start_time,
       schedule[i].end_time>> : i \in 1..Len(schedule)}

\* C11: auto-assignment run twice in a row over the same dates and the same
\* roster leaves the same set of (date, username, start, end) entries both
\* times, whatever the Office/WFH draws of the two runs are
C11_SelectionIdempotent ==
    [][(last.op = "auto" /\ last'.op = "auto")
          => Selection(schedule_file') = Selection(schedule_file)]_vars

\* a second run that drew a home shift for somebody
C11_Witness ==
    /\ last.op = "auto" /\ clicks = 2
    /\ \E i \in 1..Len(schedule_file) :
          schedule_file[i].auto_assigned /\ schedule_file[i].location = "WFH"
    /\ \E i \in 1..Len(schedule_file) :
          schedule_file[i].auto_assigned /\ schedule_file[i].location = "Office"

\* the username at position p (from 0) of the team list of a subteam
MemberAt(users, subteam, p) ==
    LET idx == {i \in 1..Len(users) : users[i].subteam = subteam}
        at == CHOOSE i \in idx : Cardinality({j \in idx : j < i}) = p
    IN users[at].username

TeamSize(users, subteam) ==
    Cardinality({i \in 1..Len(users) : users[i].subteam = subteam})

\* C12: after auto-assignment over a date set, every date of the set and
\* every team of n >= 1 members has exactly max(1, floor(n/5)) entries of the
\* team on the date, those of the members at positions (weekday + i) mod n of
\* the team list, i = 0 .. max(1, floor(n/5)) - 1, Monday being 0
C12_RotationCoverage ==
    last.op = "auto" =>
        \A date \in SeqRange(last.arg) :
            \A subteam \in {users_file[i].subteam : i \in 1..Len(users_file)} :
                LET n == TeamSize(users_file, subteam)
                    k == IF n \div 5 >= 1 THEN n \div 5 ELSE 1
                    rows == {i \in 1..Len(schedule_file) :
                                /\ schedule_file[i].date = date
                                /\ schedule_file[i].subteam = subteam}
                IN /\ Cardinality(rows) = k
                   /\ {schedule_file[i].username : i \in rows}
                        = {MemberAt(users_file, subteam, ((date % 7) + i) % n) :
                              i \in 0..(k - 1)}

\* a run over a team of ten or more, and over a team smaller than the day of
\* the week of a date, so that the rotation wraps around
C12_Witness ==
    /\ last.op = "auto"
    /\ \E i \in 1..Len(users_file) :
          TeamSize(users_file, users_file[i].subteam) >= 10
    /\ \E i \in 1..Len(users_file) : \E date \in SeqRange(last.arg) :
          date % 7 >= TeamSize(users_file, users_file[i].subteam)

\* C13: after any sequence of add_notification, mark_notification_as_read
\* and delete_notification calls every user's inbox holds at most 50
\* notifications
C13_InboxBounded ==
    \A u \in DOMAIN notifications_file : Len(notifications_file[u]) <= InboxCap

\* a full inbox that has lost its oldest notifications to later ones
C13_Witness ==
    /\ last.op = "add" /\ clicks = MaxCalls
    /\ \E u \in DOMAIN notifications_file :
          /\ Len(notifications_file[u]) = InboxCap
          /\ notifications_file[u][InboxCap].id > 2

\* every id a notification of the dict carries
IdsOf(notifications) ==
    UNION {{notifications[u][i].id : i \in 1..Len(notifications[u])} :
           u \in DOMAIN notifications}

\* C14: an inbox is ordered newest first: add_notification puts the new
\* unread notification at position 0, keeps the others in their order, and
\* discards exactly the oldest ones beyond 50
C14_NewestFirst ==
    [][last'.op = "add" =>
          LET u == last'.arg.username
              old == Inbox(notifications_file, u)
              new == notifications_file'[u]
          IN /\ Len(new) = (IF Len(old) + 1 > 50 THEN 50 ELSE Len(old) + 1)
             /\ new[1].read = FALSE
             /\ new[1].id \notin IdsOf(notifications_file)
             /\ \A i \in 2..Len(new) : new[i] = old[i - 1]
             /\ \A v \in DOMAIN notifications_file \ {u} :
                   notifications_file'[v] = notifications_file[v]]_vars

\* an add to a full inbox of which one notification was read: the newest is
\* first and unread, the read one has moved down, the oldest is gone
C14_Witness ==
    /\ last.op = "add"
    /\ LET inbox == Inbox(notifications_file, last.arg.username)
       IN /\ Len(inbox) = InboxCap
          /\ inbox[1].id = InboxCap + 1 /\ ~inbox[1].read
          /\ inbox[2].read
          /\ inbox[InboxCap].id = 2

\* C15: mark_notification_as_read and delete_notification called with an
\* unknown username, or with an id that is not in the inbox, return false and
\* leave every inbox unchanged
C15_UnknownIsRefused ==
    [][(/\ last'.op \in {"mark", "delete"}
        /\ \/ last'.arg.username \notin DOMAIN notifications_file
           \/ \A i \in 1..Len(notifications_file[last'.arg.username]) :
                 notifications_file[last'.arg.username][i].id # last'.arg.id)
          => /\ last'.ok = FALSE
             /\ notifications_file' = notifications_file]_vars

\* a call with an id that is not in the inbox of a known username
C15_Witness ==
    /\ last.op \in {"mark", "delete"}
    /\ last.arg.username \in DOMAIN notifications_file
    /\ last.arg.id = 0

\* C16: after N > 10 successive saves of one collection exactly 10 backup
\* files of the collection remain, those taken by the 10 most recent saves,
\* also when several saves fall within the same second of the clock
C16_TenNewestBackups ==
    clock.saves > 10 =>
        /\ Cardinality(backup_dir) = 10
        /\ {b.save : b \in backup_dir} = (clock.saves - 9)..clock.saves

\* more than ten saves, two of them within one second
C16_Witness ==
    /\ clock.saves > 10
    /\ clock.second < clock.saves - 1

\* C17: create_shift_swap_request called with a schedule key that does not
\* resolve, or with a target user that does not exist, returns failure and
\* persists nothing: the requests are unchanged and no notification is added
C17_FailedCreatePersistsNothing ==
    [][(/\ last'.op = "create"
        /\ \/ last'.arg.schedule_id < 0
           \/ last'.arg.schedule_id >= Len(schedule_file)
           \/ \A i \in 1..Len(users_file) :
                 users_file[i].username # last'.arg.target_username)
          => /\ last'.ok = FALSE
             /\ shift_requests_file' = shift_requests_file
             /\ notifications_file' = notifications_file
             /\ schedule_file' = schedule_file]_vars

\* a refused call for an unknown target made when a request is on file
C17_Witness ==
    /\ last.op = "create" /\ ~last.ok
    /\ last.arg.target_username = "zed"
    /\ last.arg.schedule_id \in 0..(Len(schedule_file) - 1)
    /\ shift_requests_file # <<>>

\* C18: a successful create_shift_swap_request adds exactly one request,
\* with a fresh id, status Pending and the date, start, end, location, notes
\* and auto_assigned of the referenced entry; it leaves the existing requests
\* and the schedule unchanged and adds exactly one notification to the
\* target's inbox and one to the requester's
C18_CreateAddsOneRequest ==
    [][(last'.op = "create" /\ last'.ok) =>
          LET k == last'.arg.schedule_id
              target == last'.arg.target_username
              entry == schedule_file[k + 1]
              before == Len(shift_requests_file)
              request == shift_requests_file'[before + 1]
              added(u) == (IF u = target THEN 1 ELSE 0)
                          + (IF u = entry.username THEN 1 ELSE 0)
          IN /\ Len(shift_requests_file') = before + 1
             /\ SubSeq(shift_requests_file', 1, before) = shift_requests_file
             /\ \A i \in 1..before :
                   shift_requests_file[i].request_id # request.request_id
             /\ request.status = "Pending"
             /\ request.target_username = target
             /\ request.schedule_id = k
             /\ request.date = entry.date
             /\ request.start_time = entry.start_time
             /\ request.end_time = entry.end_time
             /\ request.location = entry.location
             /\ request.notes = entry.notes
             /\ request.auto_assigned = entry.auto_assigned
             /\ schedule_file' = schedule_file
             /\ DOMAIN notifications_file'
                   = DOMAIN notifications_file \cup {target, entry.username}
             /\ \A u \in DOMAIN notifications_file' :
                   LET old == Inbox(notifications_file, u)
                       new == notifications_file'[u]
                   IN /\ Len(new) = (IF Len(old) + added(u) > 50 THEN 50
                                     ELSE Len(old) + added(u))
                      /\ \A i \in 1..Len(new) :
                            IF i <= added(u)
                            THEN /\ new[i].id \notin IdsOf(notifications_file)
                                 /\ ~new[i].read
                            ELSE new[i] = old[i - added(u)]]_vars

\* a second request created, for an entry of one user and another as target
C18_Witness ==
    /\ last.op = "create" /\ last.ok
    /\ Len(shift_requests_file) = 2
    /\ shift_requests_file[2].requester_username # shift_requests_file[2].target_username
    /\ shift_requests_file[2].auto_assigned

\* C19: when a swap request is created, the schedule entry it references
\* belongs to the acting user and that user is recorded as the requester,
\* also when other sessions changed the schedule between the selection of
\* the shift and the sending of the request
C19_RequesterOwnsEntry ==
    [][(last'.op = "request" /\ last'.ok) =>
          LET s == last'.s
              k == sess[s].selected_shift_for_swap
              request == shift_requests_file'[Len(shift_requests_file')]
          IN /\ mem[s].schedule[k + 1].username = sess[s].current_user
             /\ request.requester_username = sess[s].current_user]_vars

\* a request sent for a shift selected in an earlier run of the session
C19_Witness ==
    /\ last.op = "request" /\ last.ok
    /\ shift_requests_file # <<>>

\* C20: the entry inserted by a successful ownership transfer is owned by
\* the target and has the date, start, end, location and auto_assigned flag
\* of the entry the transfer removes, as that entry is at approval time; its
\* notes are "Swapped with <requester name>"
C20_TransferCarriesEntry ==
    [][(last'.op = "approve" /\ last'.n > 0) =>
          LET s == last'.s
              request == RequestOf(mem[s].shift_requests, last'.rid)
              removed == mem[s].schedule[request.schedule_id + 1]
              inserted == schedule_file'[Len(schedule_file')]
          IN /\ inserted.username = request.target_username
             /\ inserted.date = removed.date
             /\ inserted.start_time = removed.start_time
             /\ inserted.end_time = removed.end_time
             /\ inserted.location = removed.location
             /\ inserted.auto_assigned = removed.auto_assigned
             /\ inserted.notes = <<"Swapped with", request.requester_name>>]_vars

\* an approval that transferred an entry
C20_Witness ==
    /\ last.op = "approve" /\ last.n > 0
    /\ \E i \in 1..Len(schedule_file) :
          /\ Len(schedule_file[i].notes) = 2
          /\ schedule_file[i].notes[1] = "Swapped with"

\* C21: a request becomes Cancelled only through an action of its
\* requester, and Approved or Rejected only through an action of its target;
\* each of these transitions is taken only from status Pending
C21_TransitionsByRole ==
    [][\A i \in 1..Len(shift_requests_file) :
          LET before == shift_requests_file[i]
              j == RequestIndex(shift_requests_file', before.request_id)
              after == shift_requests_file'[j]
              actor == sess[last'.s].current_user
          IN (j # 0 /\ after.status # before.status) =>
                /\ before.status = "Pending"
                /\ after.status = "Cancelled" => actor = before.requester_username
                /\ after.status \in {"Approved", "Rejected"}
                      => actor = before.target_username
      ]_vars

\* a request that its target approved or rejected, or its requester cancelled
C21_Witness ==
    /\ last.op \in {"approve", "reject", "cancel"}
    /\ \E i \in 1..Len(shift_requests_file) :
          /\ shift_requests_file[i].request_id = last.rid
          /\ shift_requests_file[i].status # "Pending"

\* C22: with no users, auto-assignment at session start or through
\* regenerate_auto_assignments is a no-op: the schedule, in memory and
\* persisted, is the same after the call as before it
C22_NoUsersNoOp ==
    [][(users_file = <<>> /\ last'.op \in {"begin", "regenerate"}) =>
          /\ schedule_file' = schedule_file
          /\ mem'[last'.s].schedule
                = (IF last'.op = "begin" THEN load_schedule(schedule_file)
                   ELSE mem[last'.s].schedule)]_vars

\* a regeneration on an instance without users whose schedule has entries
C22_Witness ==
    /\ users_file = <<>>
    /\ last.op = "regenerate"
    /\ schedule_file # <<>>

\* C23: deleting a user removes the user's record and does not cascade to
\* the schedule: every entry, those of the deleted username included,
\* remains with all its fields unchanged
C23_DeleteUserKeepsSchedule ==
    [][last'.op = "delete_user" =>
          /\ \A i \in 1..Len(users_file') : users_file'[i].username # last'.arg
          /\ schedule_file' = schedule_file]_vars

\* a user deleted who owns entries of the schedule
C23_Witness ==
    /\ last.op = "delete_user"
    /\ \E i \in 1..Len(schedule_file) : schedule_file[i].username = last.arg
    /\ \A i \in 1..Len(users_file) : users_file[i].username # last.arg

\* C24: a mutation of a collection is an atomic read-modify-write-persist
\* unit: a session that persists a collection does so from the copy of the
\* file as it is at that moment, so that no completed write of another
\* session is lost by an overwrite from a stale copy
C24_NoStaleOverwrite ==
    [][last'.op \notin {"init", "begin"} =>
          LET m == mem[last'.s]
          IN /\ schedule_file' # schedule_file
                  => m.schedule = load_schedule(schedule_file)
             /\ shift_requests_file' # shift_requests_file
                  => m.shift_requests = shift_requests_file
             /\ notifications_file' # notifications_file
                  => m.notifications = notifications_file
             /\ users_file' # users_file => m.users = users_file]_vars

\* a handler that persisted a collection while another session was running
C24_Witness ==
    /\ last.op \in {"submit", "approve", "request", "delete"}
    /\ last.ok
    /\ \E t \in Sessions \ {last.s} : Running(t)

\* C25: a failure to persist a collection is not raised to the caller of
\* the mutating operation, and the collection in memory still reflects the
\* attempted change, so that a later save persists it
C25_FailedSaveKeepsMemory ==
    [][last'.op \in {"disk_regenerate", "disk_add"} =>
          LET io == last'.arg.io
              m == mem["s1"]
              after == mem'["s1"]
              window == {i \in 1..Len(after.schedule) :
                            after.schedule[i].date \in SeqRange(all_dates)}
          IN /\ last'.ok
             /\ last'.op = "disk_add" =>
                   /\ \E u \in DOMAIN after.notifications :
                         /\ after.notifications[u] # <<>>
                         /\ after.notifications[u][1].id \notin IdsOf(m.notifications)
                         /\ Tail(after.notifications[u]) = Inbox(m.notifications, u)
                   /\ ~WriteFailed(io) => notifications_file' = after.notifications
             /\ last'.op = "disk_regenerate" =>
                   /\ window # {}
                   /\ \A i \in window : after.schedule[i].auto_assigned
                   /\ Len(after.schedule) - Cardinality(window)
                        = Cardinality({i \in 1..Len(m.schedule) :
                                          m.schedule[i].date \notin SeqRange(all_dates)})
                   /\ ~WriteFailed(io) => schedule_file' = after.schedule]_vars

\* a save that worked after one that failed: the file holds both changes
C25_Witness ==
    /\ last.op = "disk_add" /\ last.arg.io = "ok"
    /\ last.arg.failures = 1 /\ clicks = 2
    /\ \E u \in DOMAIN notifications_file : Len(notifications_file[u]) = 2

\* the file of a collection, and the empty collection of its kind
FileOf(c) ==
    CASE c = "users" -> users_file
      [] c = "schedule" -> schedule_file
      [] c = "shift_requests" -> shift_requests_file
      [] c = "preferences" -> preferences_file
      [] c = "notifications" -> notifications_file

\* C26: loading a collection (users, schedule, swap requests, preferences,
\* notifications) whose file is malformed leaves the empty collection in
\* memory, and that empty collection is persisted at once
C26_MalformedFallsBackEmpty ==
    [][last'.op = "load" =>
          \A c \in unreadable :
              /\ mem'[last'.s][c] = <<>>
              /\ c \notin unreadable'
              /\ FileOf(c)' = <<>>]_vars

\* a load that met a malformed file
C26_Witness ==
    /\ last.op = "load"
    /\ last.arg # {}

\* C27: update_shift_request_status and process_approved_swap called with
\* a request id that matches no request return failure and change no
\* request, no schedule entry and no inbox
C27_UnknownRequestRefused ==
    [][(/\ last'.op \in {"update", "process"}
        /\ \A i \in 1..Len(shift_requests_file) :
              shift_requests_file[i].request_id # last'.rid)
          => /\ last'.ok = FALSE
             /\ shift_requests_file' = shift_requests_file
             /\ schedule_file' = schedule_file
             /\ notifications_file' = notifications_file]_vars

\* a call for an id that no request carries, made with a request on file
C27_Witness ==
    /\ last.op \in {"update", "process"} /\ ~last.ok
    /\ shift_requests_file # <<>>
    /\ \A i \in 1..Len(shift_requests_file) :
          /\ shift_requests_file[i].request_id # last.rid
          /\ shift_requests_file[i].status = "Pending"

\* the user record of the username
RecordOf(users, username) ==
    users[CHOOSE i \in 1..Len(users) : users[i].username = username]

\* C28: an auto-assigned entry starts at the member's preferred start time
\* and ends that many preferred daily hours later; for a member without
\* preferences the entry is 09:00 to 17:00 (default start 09:00, default
\* duration 8 hours)
C28_TimesFromPreferences ==
    last.op = "auto" =>
        \A i \in 1..Len(schedule_file) :
            schedule_file[i].auto_assigned =>
                LET prefs == RecordOf(users_file, schedule_file[i].username).preferences
                    start == schedule_file[i].start_time
                    end == schedule_file[i].end_time
                IN IF prefs = NoPrefs
                   THEN start = <<9, 0>> /\ end = <<17, 0>>
                   ELSE /\ start = prefs.preferred_start_time
                        /\ end[1] * 60 + end[2]
                             = start[1] * 60 + start[2] + prefs.preferred_hours * 60

\* a run that assigned a member with preferences and one without
C28_Witness ==
    /\ last.op = "auto"
    /\ \E i, j \in 1..Len(schedule_file) :
          /\ schedule_file[i].auto_assigned /\ schedule_file[j].auto_assigned
          /\ RecordOf(users_file, schedule_file[i].username).preferences = NoPrefs
          /\ RecordOf(users_file, schedule_file[j].username).preferences # NoPrefs

\* C29: an entry that auto-assignment makes for a user who has saved a start
\* time or daily hours on the preferences page begins at the saved start time
\* and lasts the saved hours
C29_SavedPreferencesApplied ==
    [][last'.op = "auto" =>
          \A i \in 1..Len(schedule_file') :
              LET e == schedule_file'[i]
                  u == e.username
              IN (/\ \A j \in 1..Len(schedule_file) : schedule_file[j] # e
                  /\ e.auto_assigned
                  /\ u \in DOMAIN preferences_file
                  /\ preferences_file[u] # DefaultPreferences)
                 => /\ e.start_time = preferences_file[u].preferred_start_time
                    /\ e.end_time[1] * 60 + e.end_time[2]
                         = e.start_time[1] * 60 + e.start_time[2]
                           + preferences_file[u].preferred_hours * 60]_vars

\* a user changed their start time, then auto-assignment made their entry
C29_Witness ==
    /\ last.op = "auto" /\ clicks = 2
    /\ \E i \in 1..Len(schedule_file) :
          /\ schedule_file[i].auto_assigned
          /\ schedule_file[i].username \in DOMAIN preferences_file
          /\ preferences_file[schedule_file[i].username].preferred_start_time
               # DefaultPreferences.preferred_start_time

\* C30: every entry auto-assignment makes, at the start of a session or by
\* regeneration, has auto_assigned true, the notes "Auto-assigned shift" and
\* the location Office or WFH, also for a member who prefers Hybrid; an entry
\* at Hybrid, On-Site Client or Travel is made only by the schedule form or by
\* the swap of a request for an entry at that location
C30_AutoEntriesOfficeOrWFH ==
    [][LET s == last'.s
           before == IF last'.op = "begin" THEN schedule_file ELSE mem[s].schedule
           made == {i \in 1..Len(schedule_file') :
                       /\ \A j \in 1..Len(before) : before[j] # schedule_file'[i]
                       /\ \A j \in 1..Len(schedule_file) :
                             schedule_file[j] # schedule_file'[i]}
       IN \A i \in made :
             LET e == schedule_file'[i]
             IN /\ last'.op \in {"begin", "regenerate"} =>
                      /\ e.auto_assigned
                      /\ e.notes = <<"Auto-assigned shift">>
                      /\ e.location \in {"Office", "WFH"}
                /\ e.location \in {"Hybrid", "On-Site Client", "Travel"} =>
                      \/ last'.op = "submit"
                      \/ /\ last'.op = "approve"
                         /\ \E k \in 1..Len(mem[s].shift_requests) :
                               /\ mem[s].shift_requests[k].request_id = last'.rid
                               /\ mem[s].shift_requests[k].location = e.location]_vars

\* a Hybrid entry was swapped to the member who prefers Hybrid, then the
\* window was regenerated and gave that member a shift at home
C30_Witness ==
    /\ last.op = "regenerate"
    /\ UserOf(users_file, "alice").preferences.preferred_location = "Hybrid"
    /\ \E i, j \in 1..Len(schedule_file) :
          /\ schedule_file[i].username = "alice"
          /\ schedule_file[i].auto_assigned
          /\ schedule_file[i].notes = <<"Auto-assigned shift">>
          /\ schedule_file[i].location = "WFH"
          /\ schedule_file[j].username = "alice"
          /\ schedule_file[j].location = "Hybrid"
          /\ schedule_file[j].notes # <<>>
          /\ schedule_file[j].notes[1] = "Swapped with"

\* the usernames auto-assigned to the team on the date
Slate(schedule, subteam, date) ==
    {schedule[i].username : i \in {j \in 1..Len(schedule) :
                                      /\ schedule[j].date = date
                                      /\ schedule[j].subteam = subteam
                                      /\ schedule[j].auto_assigned}}

\* a team size that divides neither the five working days nor the seven days
\* of the week, and is no multiple of them
Uneven(n) == n > 1 /\ 5 % n # 0 /\ 7 % n # 0 /\ n % 5 # 0 /\ n % 7 # 0

\* C31: after auto-assignment over a weekday and the same weekday of the
\* following week, a team whose size does not divide evenly has different
\* members assigned on the two dates
C31_SlateDiffersNextWeek ==
    last.op = "auto" =>
        \A d \in SeqRange(last.arg) :
            (d + DaysPerWeek) \in SeqRange(last.arg) =>
                \A subteam \in {users_file[i].subteam : i \in 1..Len(users_file)} :
                    Uneven(TeamSize(users_file, subteam)) =>
                        Slate(schedule_file, subteam, d)
                            # Slate(schedule_file, subteam, d + DaysPerWeek)

\* a run over a Monday and the next Monday for a team of three
C31_Witness ==
    /\ last.op = "auto"
    /\ \E d \in SeqRange(last.arg) :
          /\ (d + DaysPerWeek) \in SeqRange(last.arg)
          /\ \E subteam \in {users_file[i].subteam : i \in 1..Len(users_file)} :
                /\ TeamSize(users_file, subteam) = 3
                /\ Slate(schedule_file, subteam, d) # {}
                /\ Slate(schedule_file, subteam, d + DaysPerWeek) # {}

\* the submitted range overlaps an entry of the user on the date other than
\* the entry with the key
OverlapsAnother(schedule, username, key, date, start_time, end_time) ==
    \E k \in get_user_schedule(schedule, username, date) \ {key} :
        Overlaps(start_time, end_time,
                 parse_time(schedule[k + 1].start_time),
                 parse_time(schedule[k + 1].end_time))

\* C32: the submit of an edit is compared with the other entries of the
\* edited entry's owner on the submitted date and not with the edited entry:
\* it is rejected when it overlaps one of them, and an edit that keeps the
\* entry's date and times and overlaps none of them is accepted
C32_EditExcludesItself ==
    [][LET s == last'.s
           id == sess[s].editing_schedule_id
           old == mem[s].schedule[id + 1]
           date == last'.arg[1]
           start_time == last'.arg[2]
           end_time == last'.arg[3]
           another == OverlapsAnother(mem[s].schedule, old.username, id,
                                      date, start_time, end_time)
       IN (last'.op = "submit" /\ IsEditing(mem[s], sess[s])
              /\ end_time > start_time) =>
             /\ another => ~last'.ok
             /\ (/\ date = old.date
                 /\ start_time = parse_time(old.start_time)
                 /\ end_time = parse_time(old.end_time)
                 /\ ~another) => last'.ok]_vars

\* a user with an entry on the date added a second one next to it, opened
\* the new entry and submitted it with its date and times as they were
C32_Witness ==
    /\ last.op = "submit" /\ last.ok /\ clicks = 3
    /\ LET u == sess[last.s].current_user
       IN /\ Len(Inbox(notifications_file, u)) >= 2
          /\ Inbox(notifications_file, u)[1].message = "schedule_updated"
          /\ Inbox(notifications_file, u)[2].message = "schedule_added"
          /\ \E i, j \in 1..Len(schedule_file) :
                /\ i # j
                /\ schedule_file[i].username = u
                /\ schedule_file[j].username = u
                /\ schedule_file[i].date = schedule_file[j].date
                /\ schedule_file[i].auto_assigned
                /\ schedule_file[j].date = last.arg[1]
                /\ parse_time(schedule_file[j].start_time) = last.arg[2]
                /\ parse_time(schedule_file[j].end_time) = last.arg[3]

\* C33: an accepted manual edit leaves the username of the edited entry as it
\* was, also when an Admin or Manager edits the entry of another user
C33_EditKeepsOwner ==
    [][LET s == last'.s
           id == sess[s].editing_schedule_id
       IN (last'.op = "submit" /\ last'.ok /\ IsEditing(mem[s], sess[s])) =>
             /\ InIndex(schedule_file', id)
             /\ schedule_file'[id + 1].username = mem[s].schedule[id + 1].username]_vars

\* the Manager's first change was the accepted edit of an entry of alice
C33_Witness ==
    /\ last.op = "submit" /\ last.ok /\ clicks = 2
    /\ sess[last.s].user_role = "Manager"
    /\ Inbox(notifications_file, "bob") # <<>>
    /\ Inbox(notifications_file, "bob")[1].message = "schedule_updated"
    /\ Len(schedule_file) = Len(FirstSchedule)
    /\ \E i \in 1..Len(schedule_file) :
          /\ FirstSchedule[i].username = "alice"
          /\ schedule_file[i] # FirstSchedule[i]

\* the name and team each entry carries
EntrySnapshots(schedule) ==
    [i \in 1..Len(schedule) |->
        <<schedule[i].username, schedule[i].name, schedule[i].subteam>>]

\* the names each request carries
RequestSnapshots(requests) ==
    [i \in 1..Len(requests) |->
        <<requests[i].request_id, requests[i].requester_name, requests[i].target_name>>]

\* C34: the edit of a user's name, team and role leaves schedule.csv and
\* shift_requests.csv as they were, and a later construction of the system
\* that does not auto-assign leaves the name and team of every entry and the
\* names of every request as they were
C34_SnapshotsSurviveUserEdit ==
    [][/\ last'.op = "edit_user" =>
             /\ schedule_file' = schedule_file
             /\ shift_requests_file' = shift_requests_file
       /\ (last'.op = "begin" /\ sess[last'.s].auto_assignment_performed) =>
             /\ EntrySnapshots(schedule_file') = EntrySnapshots(schedule_file)
             /\ RequestSnapshots(shift_requests_file')
                  = RequestSnapshots(shift_requests_file)]_vars

\* a user with an entry and a request of their own was given another name
C34_Witness ==
    /\ last.op = "edit_user" /\ last.ok
    /\ UserOf(users_file, last.arg.username).name = last.arg.name
    /\ \E i \in 1..Len(schedule_file) :
          /\ schedule_file[i].username = last.arg.username
          /\ schedule_file[i].name # last.arg.name
          /\ schedule_file[i].subteam # last.arg.subteam
    /\ \E i \in 1..Len(shift_requests_file) :
          /\ shift_requests_file[i].requester_username = last.arg.username
          /\ shift_requests_file[i].requester_name # last.arg.name

\* C35: registering or adding a user under a username that users.json holds
\* is refused and leaves users.json, preferences.json and the other files as
\* they were
C35_DuplicateUsernameRefused ==
    [][(/\ last'.op \in {"register", "add_user"}
        /\ HasUser(users_file, last'.arg.username)) =>
             /\ ~last'.ok
             /\ users_file' = users_file
             /\ preferences_file' = preferences_file
             /\ schedule_file' = schedule_file
             /\ shift_requests_file' = shift_requests_file
             /\ notifications_file' = notifications_file]_vars

\* a registration refused only because the username is taken
C35_Witness ==
    /\ last.op = "register" /\ ~last.ok
    /\ last.arg.fields_ok
    /\ HasUser(users_file, last.arg.username)

\* C36: every entry that an approval with a successful transfer takes out of
\* the schedule is owned by the requester of the request and has the date,
\* start and end the request recorded
C36_TransferRemovesRequestedEntry ==
    [][(last'.op = "approve" /\ last'.n > 0) =>
          LET s == last'.s
              request == RequestOf(mem[s].shift_requests, last'.rid)
              removed == {i \in 1..Len(mem[s].schedule) :
                            \A j \in 1..Len(schedule_file') :
                                schedule_file'[j] # mem[s].schedule[i]}
          IN \A i \in removed :
                LET e == mem[s].schedule[i]
                IN /\ e.username = request.requester_username
                   /\ e.date = request.date
                   /\ e.start_time = request.start_time
                   /\ e.end_time = request.end_time]_vars

\* an approved request whose transfer put the target's entry on file
C36_Witness ==
    /\ last.op = "approve" /\ last.n > 0
    /\ \E i \in 1..Len(shift_requests_file) :
          /\ shift_requests_file[i].request_id = last.rid
          /\ shift_requests_file[i].status = "Approved"
          /\ \E j \in 1..Len(schedule_file) :
                /\ schedule_file[j].username = shift_requests_file[i].target_username
                /\ schedule_file[j].date = shift_requests_file[i].date
                /\ schedule_file[j].notes
                     = <<"Swapped with", shift_requests_file[i].requester_name>>

C38_AssignsOncePerSession ==
    [][(last'.op = "begin" /\ sess[last'.s].auto_assignment_performed) =>
          /\ schedule_file' = schedule_file
          /\ mem'[last'.s].schedule = schedule_file
          /\ sess' = sess]_vars

\* a session that auto-assigned at its start, logged in and added an entry in
\* the window by hand is constructed again and the entry is still there
C38_Witness ==
    /\ last.op = "begin" /\ clicks >= 3
    /\ sess[last.s].authenticated /\ sess[last.s].auto_assignment_performed
    /\ Inbox(notifications_file, sess[last.s].current_user) # <<>>
    /\ Inbox(notifications_file, sess[last.s].current_user)[1].message = "schedule_added"
    /\ \E i \in 1..Len(Inbox(notifications_file, sess[last.s].current_user)) :
          Inbox(notifications_file, sess[last.s].current_user)[i].message = "welcome"
    /\ \E i \in 1..Len(schedule_file) :
          /\ schedule_file[i].date \in SeqRange(all_dates)
          /\ ~schedule_file[i].auto_assigned
          /\ schedule_file[i].username = sess[last.s].current_user

\* C39: the members picked for one team on one date are pairwise distinct,
\* and after a run no two auto-assigned entries of one of its dates carry the
\* same username
C39_DistinctMembersPerDate ==
    last.op = "auto" =>
        \A date \in SeqRange(last.arg) :
            /\ \A subteam \in {users_file[i].subteam : i \in 1..Len(users_file)} :
                  LET sel == selected_users(TeamMembers(users_file, subteam), date)
                  IN \A i, j \in 1..Len(sel) :
                        i # j => sel[i].username # sel[j].username
            /\ \A i, j \in 1..Len(schedule_file) :
                  (/\ i # j
                   /\ schedule_file[i].date = date /\ schedule_file[j].date = date
                   /\ schedule_file[i].auto_assigned /\ schedule_file[j].auto_assigned)
                  => schedule_file[i].username # schedule_file[j].username

\* a run that picked two members of one team for a date
C39_Witness ==
    /\ last.op = "auto"
    /\ \E i, j \in 1..Len(schedule_file) :
          /\ i # j
          /\ schedule_file[i].date = schedule_file[j].date
          /\ schedule_file[i].date \in SeqRange(last.arg)
          /\ schedule_file[i].subteam = schedule_file[j].subteam
          /\ schedule_file[i].auto_assigned /\ schedule_file[j].auto_assigned

\* the inbox is the earlier one with the given newest notifications, each a
\* <<message, type>>, put on top
Topped(inbox, newest, earlier) ==
    /\ Len(inbox) = Len(newest) + Len(earlier)
    /\ \A i \in 1..Len(newest) :
          /\ inbox[i].message = newest[i][1]
          /\ inbox[i].type = newest[i][2]
    /\ \A i \in 1..Len(earlier) : inbox[Len(newest) + i] = earlier[i]

\* C40: after an approval whose transfer fails because the request's key
\* resolves to no entry, requester and target being two users, the
\* requester's inbox is the earlier one with the error notification on top
\* and the "approved" success notification right below it, and the target's
\* inbox is the earlier one with the error notification alone on top
C40_ApprovedBeforeTransfer ==
    [][(/\ last'.op = "approve"
        /\ ~InIndex(mem[last'.s].schedule,
                    RequestOf(mem[last'.s].shift_requests, last'.rid).schedule_id)
        /\ RequestOf(mem[last'.s].shift_requests, last'.rid).requester_username
             # RequestOf(mem[last'.s].shift_requests, last'.rid).target_username) =>
          LET m == mem[last'.s]
              request == RequestOf(m.shift_requests, last'.rid)
          IN /\ Topped(Inbox(notifications_file', request.requester_username),
                       << <<"swap_issue", "error">>, <<"approved", "success">> >>,
                       Inbox(m.notifications, request.requester_username))
             /\ Topped(Inbox(notifications_file', request.target_username),
                       << <<"swap_issue", "error">> >>,
                       Inbox(m.notifications, request.target_username))]_vars

\* the requester was told of the approval and then of the failed transfer
C40_Witness ==
    /\ last.op = "approve" /\ ~last.ok /\ last.n = 0
    /\ LET request == RequestOf(shift_requests_file, last.rid)
           inbox == Inbox(notifications_file, request.requester_username)
       IN /\ request.status = "Approved"
          /\ request.requester_username # request.target_username
          /\ Len(inbox) >= 2
          /\ inbox[1].type = "error"
          /\ inbox[2].message = "approved"

====
